---------------------------- MODULE Spec2Model ----------------------------
(***************************************************************************)
(* A model of the CAIE assembly emulator (micfong-z/caie-asm):             *)
(*   - the operand parser and opcode resolver   (src/src/lib.rs)           *)
(*   - the two-pass assembler                   (src/src/assembler.rs)     *)
(*   - the program loader, the execution engine and the host frame loop    *)
(*     (src/src/app.rs)                                                    *)
(* Text is modelled as sequences of one-character strings; characters     *)
(* typed into the console and written by OUT are Unicode code points.      *)
(***************************************************************************)
EXTENDS Integers, Sequences, FiniteSets, TLC

(***************************************************************************)
(* Machine integers                                                        *)
(***************************************************************************)
U16 == 65536

MemSize == 256

\* an addition that wraps without reporting it
overflowing_add_Silent(a, b) == [result |-> (a + b) % U16, overflow |-> FALSE]

\* a subtraction that reports a borrow when the minuend is the larger
overflowing_sub_Swapped(a, b) ==
    [result |-> (a - b + U16) % U16, overflow |-> a > b]

\* u16::overflowing_add
overflowing_add(a, b) == [result |-> (a + b) % U16, overflow |-> (a + b) >= U16]

\* u16::overflowing_sub
overflowing_sub(a, b) == [result |-> (a - b + U16) % U16, overflow |-> a < b]

RECURSIVE Pow2(_)
Pow2(n) == IF n = 0 THEN 1 ELSE 2 * Pow2(n - 1)

\* bitwise combination of two 16-bit words, bit by bit; f is the truth
\* table of the operation indexed by the sum-encoded pair 2*x+y
RECURSIVE BitOp(_, _, _, _)
BitOp(f, a, b, n) ==
    IF n = 0 THEN 0
    ELSE f[2 * (a % 2) + (b % 2)] + 2 * BitOp(f, a \div 2, b \div 2, n - 1)

BitAnd(a, b) == BitOp([i \in 0..3 |-> IF i = 3 THEN 1 ELSE 0], a, b, 16)
BitXor(a, b) == BitOp([i \in 0..3 |-> IF i \in {1, 2} THEN 1 ELSE 0], a, b, 16)
BitOr(a, b)  == BitOp([i \in 0..3 |-> IF i = 0 THEN 0 ELSE 1], a, b, 16)

SignBit(v) == (v \div 32768) % 2 = 1

(***************************************************************************)
(* Data model (lib.rs)                                                     *)
(***************************************************************************)
Mnemonics ==
    {"Ldm", "Ldd", "Ldi", "Ldx", "Ldr", "Mov", "Sto", "Add", "Sub", "Inc",
     "Dec", "Jmp", "Cmp", "Cmi", "Jpe", "Jpn", "In", "Out", "End", "And",
     "Xor", "Or", "Lsl", "Lsr"}

Op(n)   == [name |-> n, value |-> 0]
Data(v) == [name |-> "Data", value |-> v]

Register(r)  == [kind |-> "Register", reg |-> r, value |-> 0]
Address(a)   == [kind |-> "Address", reg |-> "-", value |-> a]
Immediate(v) == [kind |-> "Immediate", reg |-> "-", value |-> v]
Empty        == [kind |-> "Empty", reg |-> "-", value |-> 0]

Instruction(op, operand) ==
    [tag |-> "Instruction", opcode |-> op, operand |-> operand, value |-> 0]
Value(v) ==
    [tag |-> "Value", opcode |-> Op("End"), operand |-> Empty, value |-> v]

Ok(v)  == [ok |-> TRUE, val |-> v]
Err(e) == [ok |-> FALSE, val |-> e]

(***************************************************************************)
(* Text helpers: a string is a sequence of one-character strings           *)
(***************************************************************************)
HexDigits == <<"0", "1", "2", "3", "4", "5", "6", "7", "8", "9",
               "a", "b", "c", "d", "e", "f">>
HexUpper  == <<"0", "1", "2", "3", "4", "5", "6", "7", "8", "9",
               "A", "B", "C", "D", "E", "F">>

\* char::to_digit(radix): the digit value of c, or -1
to_digit(c, radix) ==
    IF \E i \in 1..radix : HexDigits[i] = c \/ HexUpper[i] = c
    THEN (CHOOSE i \in 1..radix : HexDigits[i] = c \/ HexUpper[i] = c) - 1
    ELSE -1

RECURSIVE ParseDigits(_, _, _)
RECURSIVE ParseDigit(_, _, _, _)
\* accumulate the digits of s in the radix; -1 on a bad digit or on a
\* value that does not fit in 16 bits
ParseDigits(s, radix, acc) ==
    IF s = <<>> THEN acc
    ELSE ParseDigit(Tail(s), radix, acc, to_digit(Head(s), radix))

\* one digit d of the accumulation, rest being the text after it
ParseDigit(rest, radix, acc, d) ==
    IF d < 0 THEN -1
    ELSE IF acc * radix + d >= U16 THEN -1
    ELSE ParseDigits(rest, radix, acc * radix + d)

\* u16::from_str_radix / str::parse::<u16>: an optional leading "+", then at
\* least one digit; -1 stands for Err
from_str_radix(s, radix) ==
    IF s = <<>> THEN -1
    ELSE LET digits == IF Head(s) = "+" THEN Tail(s) ELSE s
         IN  IF digits = <<>> THEN -1 ELSE ParseDigits(digits, radix, 0)

StartsWith(s, c) == s /= <<>> /\ Head(s) = c

EmptyTable == [k \in {} |-> 0]

\* Ok(Immediate(value)) when the parse gave a value, Err(()) otherwise
ImmediateOrErr(value) ==
    IF value >= 0 THEN Ok(Immediate(value)) ELSE Err("()")

\* the last two arms of str_to_operand: a whole-token decimal number is an
\* Address, else a label of the symbol table is the Address of its offset
AddressOrErr(value, s, symbol_table) ==
    IF value >= 0 THEN Ok(Address(value))
    ELSE IF s \in DOMAIN symbol_table THEN Ok(Address(symbol_table[s] % U16))
    ELSE Err("()")

\* an operand parser that looks a token up in the symbol table before it
\* tries the prefixes
str_to_operand_LabelFirst(s, symbol_table) ==
    IF s = <<"I", "X">> THEN Ok(Register("Ix"))
    ELSE IF s = <<"A", "C", "C">> THEN Ok(Register("Acc"))
    ELSE IF s \in DOMAIN symbol_table THEN Ok(Address(symbol_table[s] % U16))
    ELSE IF StartsWith(s, "&") THEN ImmediateOrErr(from_str_radix(Tail(s), 16))
    ELSE IF StartsWith(s, "B") THEN ImmediateOrErr(from_str_radix(Tail(s), 2))
    ELSE IF StartsWith(s, "#") THEN ImmediateOrErr(from_str_radix(Tail(s), 10))
    ELSE AddressOrErr(from_str_radix(s, 10), s, symbol_table)

\* Operand::str_to_operand
str_to_operand(s, symbol_table) ==
    IF s = <<"I", "X">> THEN Ok(Register("Ix"))
    ELSE IF s = <<"A", "C", "C">> THEN Ok(Register("Acc"))
    ELSE IF StartsWith(s, "&") THEN ImmediateOrErr(from_str_radix(Tail(s), 16))
    ELSE IF StartsWith(s, "B") THEN ImmediateOrErr(from_str_radix(Tail(s), 2))
    ELSE IF StartsWith(s, "#") THEN ImmediateOrErr(from_str_radix(Tail(s), 10))
    ELSE AddressOrErr(from_str_radix(s, 10), s, symbol_table)

MnemonicText ==
    [Ldm |-> <<"L", "D", "M">>, Ldd |-> <<"L", "D", "D">>,
     Ldi |-> <<"L", "D", "I">>, Ldx |-> <<"L", "D", "X">>,
     Ldr |-> <<"L", "D", "R">>, Mov |-> <<"M", "O", "V">>,
     Sto |-> <<"S", "T", "O">>, Add |-> <<"A", "D", "D">>,
     Sub |-> <<"S", "U", "B">>, Inc |-> <<"I", "N", "C">>,
     Dec |-> <<"D", "E", "C">>, Jmp |-> <<"J", "M", "P">>,
     Cmp |-> <<"C", "M", "P">>, Cmi |-> <<"C", "M", "I">>,
     Jpe |-> <<"J", "P", "E">>, Jpn |-> <<"J", "P", "N">>,
     In  |-> <<"I", "N">>,      Out |-> <<"O", "U", "T">>,
     End |-> <<"E", "N", "D">>, And |-> <<"A", "N", "D">>,
     Xor |-> <<"X", "O", "R">>, Or  |-> <<"O", "R">>,
     Lsl |-> <<"L", "S", "L">>, Lsr |-> <<"L", "S", "R">>]

\* a fallback arm that takes any number, an Address as well, as a data word
DataOrErr_AnyNumber(r) ==
    IF r.ok /\ r.val.kind \in {"Immediate", "Address"}
    THEN Ok(Data(r.val.value)) ELSE Err("()")

\* the fallback arm of Opcode::try_from: r is the token parsed as an operand
DataOrErr(r) ==
    IF r.ok /\ r.val.kind = "Immediate" THEN Ok(Data(r.val.value)) ELSE Err("()")

\* impl TryFrom<&str> for Opcode
try_from(s) ==
    IF \E m \in Mnemonics : MnemonicText[m] = s
    THEN Ok(Op(CHOOSE m \in Mnemonics : MnemonicText[m] = s))
    ELSE DataOrErr(str_to_operand(s, EmptyTable))

(***************************************************************************)
(* Assembler (assembler.rs)                                                *)
(***************************************************************************)
Whitespace == {" ", "\t", "\r"}

\* the positions of source at which a line starts: the first character and
\* every character after a "\n"; no line starts after a final "\n"
LineStarts(source) ==
    {p \in 1..Len(source) : p = 1 \/ source[p - 1] = "\n"}

\* the position of the last character of the line that starts at p: the
\* one before the next "\n", or the end of the text
LineEnd(source, p) ==
    IF \E i \in p..Len(source) : source[i] = "\n"
    THEN (CHOOSE i \in p..Len(source) :
             /\ source[i] = "\n"
             /\ \A j \in p..(i - 1) : source[j] /= "\n") - 1
    ELSE Len(source)

\* the start of line n, starts being the line starts of the text
NthStart(starts, n) ==
    CHOOSE p \in starts : Cardinality({q \in starts : q < p}) = n - 1

StripCr(l) ==
    IF l /= <<>> /\ l[Len(l)] = "\r" THEN SubSeq(l, 1, Len(l) - 1) ELSE l

\* the line of source that starts at p
LineAt(source, p) == StripCr(SubSeq(source, p, LineEnd(source, p)))

\* the lines of source in order, starts being its line starts
LinesFrom(source, starts) ==
    [n \in 1..Cardinality(starts) |-> LineAt(source, NthStart(starts, n))]

\* str::lines: split at "\n", no empty piece after a final newline, a
\* trailing "\r" of a line removed
lines(source) == LinesFrom(source, LineStarts(source))

RECURSIVE BeforeComment(_)
\* line.split("//").next(): the text before the first "//"
BeforeComment(l) ==
    IF l = <<>> THEN <<>>
    ELSE IF Len(l) >= 2 /\ l[1] = "/" /\ l[2] = "/" THEN <<>>
    ELSE <<Head(l)>> \o BeforeComment(Tail(l))

RECURSIVE SplitWs(_, _)
\* str::split_whitespace: the maximal runs of non-whitespace characters
SplitWs(s, cur) ==
    IF s = <<>> THEN (IF cur = <<>> THEN <<>> ELSE <<cur>>)
    ELSE IF Head(s) \in Whitespace
         THEN (IF cur = <<>> THEN <<>> ELSE <<cur>>) \o SplitWs(Tail(s), <<>>)
    ELSE SplitWs(Tail(s), Append(cur, Head(s)))

\* the tokens of a source line: comment removed, trimmed, split
Parts(line) == SplitWs(BeforeComment(line), <<>>)

ends_with(s, c) == s /= <<>> /\ s[Len(s)] = c

RECURSIVE trim_end_matches(_, _)
trim_end_matches(s, c) ==
    IF ends_with(s, c) THEN trim_end_matches(SubSeq(s, 1, Len(s) - 1), c) ELSE s

\* HashMap::insert
insert(table, k, v) ==
    [x \in DOMAIN table \cup {k} |-> IF x = k THEN v ELSE table[x]]

\* the tokens of a line after its label, if it has one
WithoutLabel(parts) ==
    IF parts /= <<>> /\ ends_with(parts[1], ":") THEN Tail(parts) ELSE parts

\* a first pass that keeps the first binding of a label
Bind_KeepsFirst(symbol_table, parts, off) ==
    IF /\ parts /= <<>> /\ ends_with(parts[1], ":")
       /\ trim_end_matches(parts[1], ":") \notin DOMAIN symbol_table
    THEN insert(symbol_table, trim_end_matches(parts[1], ":"), off)
    ELSE symbol_table

\* the symbol table after a line with tokens parts, the offset being off
Bind(symbol_table, parts, off) ==
    IF parts /= <<>> /\ ends_with(parts[1], ":")
    THEN insert(symbol_table, trim_end_matches(parts[1], ":"), off)
    ELSE symbol_table

RECURSIVE FirstPass(_, _, _, _)
RECURSIVE FirstPassLine(_, _, _, _, _)
\* first pass over ls[i..]: the symbol table and the final memory_offset
FirstPass(ls, i, symbol_table, memory_offset) ==
    IF i > Len(ls) THEN [symbol_table |-> symbol_table,
                         memory_offset |-> memory_offset]
    ELSE FirstPassLine(ls, i, symbol_table, memory_offset, Parts(ls[i]))

\* a first pass that counts a line with a label alone as an instruction
FirstPassLine_CountsLabels(ls, i, symbol_table, memory_offset, parts) ==
    FirstPass(ls, i + 1, Bind(symbol_table, parts, memory_offset),
              IF parts /= <<>> THEN memory_offset + 1 ELSE memory_offset)

\* the body of the first-pass loop for line i, whose tokens are parts
FirstPassLine(ls, i, symbol_table, memory_offset, parts) ==
    FirstPass(ls, i + 1, Bind(symbol_table, parts, memory_offset),
              IF WithoutLabel(parts) /= <<>> THEN memory_offset + 1
              ELSE memory_offset)

AddrOps  == {"Ldd", "Ldi", "Ldx", "Sto", "Jmp", "Cmi", "Jpe", "Jpn"}
ImmOps   == {"Ldm", "Ldr", "Lsl", "Lsr"}
RegOps   == {"Mov", "Inc", "Dec"}
AddrOrImmOps == {"Add", "Sub", "Cmp", "And", "Xor", "Or"}
NoOperandOps == {"In", "Out", "End"}

\* a second pass that accepts a Number where an Address is expected
AcceptedKinds_NumberForAddress(name) ==
    IF name \in ImmOps THEN {"Immediate"}
    ELSE IF name \in AddrOps THEN {"Address", "Immediate"}
    ELSE IF name \in RegOps THEN {"Register"}
    ELSE IF name \in AddrOrImmOps THEN {"Address", "Immediate"}
    ELSE {}

\* the operand kinds the second pass accepts for an opcode that takes one
AcceptedKinds(name) ==
    IF name \in ImmOps THEN {"Immediate"}
    ELSE IF name \in AddrOps THEN {"Address"}
    ELSE IF name \in RegOps THEN {"Register"}
    ELSE IF name \in AddrOrImmOps THEN {"Address", "Immediate"}
    ELSE {}

\* operand_type_expected of IncorrectOperand
ExpectedText(name) ==
    IF name \in ImmOps THEN "Number"
    ELSE IF name \in AddrOps THEN "Address"
    ELSE IF name \in RegOps THEN "Register"
    ELSE "Address/Number"

\* lines 55-75: a line that is only an opcode
NoOperandForm(opcode, line_index) ==
    IF opcode.name \in NoOperandOps THEN Ok(<<opcode, Empty>>)
    ELSE IF opcode.name = "Data" THEN Ok(<<opcode, Immediate(opcode.value)>>)
    ELSE Err([kind |-> "MissingOperand", line_index |-> line_index + 1,
              opcode |-> opcode])

\* a one-operand branch that refuses the operand of IN, OUT, END and of a
\* data word before it has parsed it
OperandForm_RedundantFirst(opcode, token, od, line_index) ==
    IF opcode.name \in NoOperandOps \cup {"Data"} THEN
        Err([kind |-> "RedundantOperand", line_index |-> line_index + 1,
             opcode |-> opcode, operand |-> od.val])
    ELSE IF ~od.ok THEN
        Err([kind |-> "MalformedOperand", line_index |-> line_index + 1,
             operand |-> token])
    ELSE IF od.val.kind \in AcceptedKinds(opcode.name) THEN
        Ok(<<opcode, od.val>>)
    ELSE Err([kind |-> "IncorrectOperand", line_index |-> line_index + 1,
              opcode |-> opcode, operand_given |-> od.val,
              operand_type_expected |-> ExpectedText(opcode.name)])

\* lines 77-358: a line with an opcode and one operand token, od being the
\* token parsed by str_to_operand
OperandForm(opcode, token, od, line_index) ==
    IF ~od.ok THEN
        Err([kind |-> "MalformedOperand", line_index |-> line_index + 1,
             operand |-> token])
    ELSE IF opcode.name \in NoOperandOps \cup {"Data"} THEN
        Err([kind |-> "RedundantOperand", line_index |-> line_index + 1,
             opcode |-> opcode, operand |-> od.val])
    ELSE IF od.val.kind \in AcceptedKinds(opcode.name) THEN
        Ok(<<opcode, od.val>>)
    ELSE Err([kind |-> "IncorrectOperand", line_index |-> line_index + 1,
              opcode |-> opcode, operand_given |-> od.val,
              operand_type_expected |-> ExpectedText(opcode.name)])

\* lines 46-359: oc is the first token resolved by Opcode::try_from
OpcodeForm(parts, oc, line_index, symbol_table) ==
    IF ~oc.ok THEN
        Err([kind |-> "UnknownOpcode", line_index |-> line_index + 1,
             opcode |-> parts[1]])
    ELSE IF Len(parts) = 1 THEN NoOperandForm(oc.val, line_index)
    ELSE OperandForm(oc.val, parts[2],
                     str_to_operand(parts[2], symbol_table), line_index)

\* a second pass that counts the opcode among the operands it reports
AssembleLine_CountsOpcode(parts, line_index, symbol_table) ==
    IF Len(parts) > 2 THEN
        Err([kind |-> "TooManyOperands", line_index |-> line_index + 1,
             operands_found |-> Len(parts)])
    ELSE OpcodeForm(parts, try_from(parts[1]), line_index, symbol_table)

\* the body of the second-pass loop for one content line: Ok(instruction)
\* or Err(AssemblerError); parts is the line without its label, nonempty
AssembleLine(parts, line_index, symbol_table) ==
    IF Len(parts) > 2 THEN
        Err([kind |-> "TooManyOperands", line_index |-> line_index + 1,
             operands_found |-> Len(parts) - 1])
    ELSE OpcodeForm(parts, try_from(parts[1]), line_index, symbol_table)

RECURSIVE SecondPass(_, _, _, _)
RECURSIVE SecondPassLine(_, _, _, _, _)
RECURSIVE SecondPassPush(_, _, _, _, _)
\* second pass over ls[i..] (line_index = i - 1), result so far in result
SecondPass(ls, i, symbol_table, result) ==
    IF i > Len(ls) THEN Ok(result)
    ELSE SecondPassLine(ls, i, symbol_table, result, WithoutLabel(Parts(ls[i])))

\* a second pass that numbers a line by the instructions before it
SecondPassLine_SlotNumber(ls, i, symbol_table, result, rest) ==
    IF rest = <<>> THEN SecondPass(ls, i + 1, symbol_table, result)
    ELSE SecondPassPush(ls, i, symbol_table, result,
                        AssembleLine(rest, Len(result), symbol_table))

\* the body of the second-pass loop for line i, rest being its tokens
\* without the label
SecondPassLine(ls, i, symbol_table, result, rest) ==
    IF rest = <<>> THEN SecondPass(ls, i + 1, symbol_table, result)
    ELSE SecondPassPush(ls, i, symbol_table, result,
                        AssembleLine(rest, i - 1, symbol_table))

\* the result of line i is pushed, or its error ends the assembly
SecondPassPush(ls, i, symbol_table, result, r) ==
    IF r.ok THEN SecondPass(ls, i + 1, symbol_table, Append(result, r.val))
    ELSE r

\* the symbol table the first pass of assemble builds
SymbolTableOf(source) == FirstPass(lines(source), 1, EmptyTable, 0).symbol_table

\* assembler::assemble
assemble(source) ==
    SecondPass(lines(source), 1, SymbolTableOf(source), <<>>)

(***************************************************************************)
(* Engine state (app.rs, struct AppContext)                                *)
(*                                                                         *)
(* panicked        the process has aborted on a Rust panic (an index out   *)
(*                 of bounds, an arithmetic overflow in a checked build,   *)
(*                 an unreachable!() arm); nothing happens afterwards      *)
(* overflow_checks the build profile: TRUE when integer overflow panics    *)
(*                 (debug), FALSE when it wraps (release)                  *)
(* at              the position inside CaieAsmApp::update: "clock" before  *)
(*                 the timed step of lines 1104-1123, "widgets" before the *)
(*                 widgets of that frame are handled                       *)
(* last_input      history variable: the character the last Send supplied, *)
(*                 -1 once the engine has stepped or the run was ended     *)
(* loads           history variable: the number of counted clicks on       *)
(*                 "Assemble and load" (see CountedAssembleAndLoad)        *)
(***************************************************************************)
VARIABLES source_code, memory, program_load_location, pc, cir, ix, mdr, mar,
          acc, carry, zero, overflow, sign, output, input, execution_state,
          assembler_error, ins_executed, execution_info, panicked,
          overflow_checks, at, last_input, loads

vars == <<source_code, memory, program_load_location, pc, cir, ix, mdr, mar,
          acc, carry, zero, overflow, sign, output, input, execution_state,
          assembler_error, ins_executed, execution_info, panicked,
          overflow_checks, at, last_input, loads>>

\* the AppContext as one record
Ctx ==
    [source_code |-> source_code, memory |-> memory,
     program_load_location |-> program_load_location, pc |-> pc, cir |-> cir,
     ix |-> ix, mdr |-> mdr, mar |-> mar, acc |-> acc, carry |-> carry,
     zero |-> zero, overflow |-> overflow, sign |-> sign, output |-> output,
     input |-> input, execution_state |-> execution_state,
     assembler_error |-> assembler_error, ins_executed |-> ins_executed,
     execution_info |-> execution_info, panicked |-> panicked]

\* the assignment of a whole AppContext record to the next state
Commit(c) ==
    /\ source_code' = c.source_code
    /\ memory' = c.memory
    /\ program_load_location' = c.program_load_location
    /\ pc' = c.pc
    /\ cir' = c.cir
    /\ ix' = c.ix
    /\ mdr' = c.mdr
    /\ mar' = c.mar
    /\ acc' = c.acc
    /\ carry' = c.carry
    /\ zero' = c.zero
    /\ overflow' = c.overflow
    /\ sign' = c.sign
    /\ output' = c.output
    /\ input' = c.input
    /\ execution_state' = c.execution_state
    /\ assembler_error' = c.assembler_error
    /\ ins_executed' = c.ins_executed
    /\ execution_info' = c.execution_info
    /\ panicked' = c.panicked
    /\ overflow_checks' = overflow_checks

None == [kind |-> "None"]

ExecutionTerminated(a) == [kind |-> "ExecutionTerminated", ins_address |-> a]
ExecutionAbortedValueMet(a, v) ==
    [kind |-> "ExecutionAbortedValueMet", ins_address |-> a, value |-> v]
TooManySteps(n) == [kind |-> "TooManySteps", steps |-> n]
AddressNotInMemory(a, r) ==
    [kind |-> "AddressNotInMemory", ins_address |-> a, requested_address |-> r]
InvalidLoad(a, r) ==
    [kind |-> "InvalidLoad", ins_address |-> a, requested_address |-> r]

StepWarnAt == 1000

\* a Rust panic: the process is gone
Panic(c) == [c EXCEPT !.panicked = TRUE]

\* a stop that puts PC back on the instruction that failed
Halt_RollsBack(c, info) ==
    [c EXCEPT !.execution_info = info, !.execution_state = "Stopped",
              !.pc = info.ins_address]

\* a report that does not stop the machine
Halt_NoStop(c, info) ==
    [c EXCEPT !.execution_info = info]

\* execution_info = Some(info); execution_state = Stopped
Halt(c, info) ==
    [c EXCEPT !.execution_info = info, !.execution_state = "Stopped"]

\* an u16 sum a + b: None-like -1 when the checked build panics on it
CheckedSum(a, b) ==
    IF a + b >= U16 THEN (IF overflow_checks THEN -1 ELSE (a + b) % U16)
    ELSE a + b

\* carry, zero, overflow and sign as ADD, SUB, CMP and CMI set them
ArithFlags(c, r) ==
    [c EXCEPT !.carry = r.overflow, !.zero = (r.result = 0),
              !.overflow = r.overflow, !.sign = SignBit(r.result)]

\* INC and DEC that set the carry flag as ADD and SUB do
IncDecFlags_WithCarry(c, r) ==
    [c EXCEPT !.carry = r.overflow, !.zero = (r.result = 0),
              !.overflow = r.overflow, !.sign = SignBit(r.result)]

\* zero, overflow and sign as INC and DEC set them (carry preserved)
IncDecFlags(c, r) ==
    [c EXCEPT !.zero = (r.result = 0), !.overflow = r.overflow,
              !.sign = SignBit(r.result)]

\* logic flags that also clear carry and overflow
LogicFlags_ClearsCarry(c) ==
    [c EXCEPT !.zero = (c.acc = 0), !.sign = SignBit(c.acc),
              !.carry = FALSE, !.overflow = FALSE]

\* zero and sign as AND, XOR, OR, LSL and LSR set them from the new ACC
LogicFlags(c) == [c EXCEPT !.zero = (c.acc = 0), !.sign = SignBit(c.acc)]

\* the effect of an arithmetic or logic opcode on ACC and the flags, given
\* the operand value v
Apply(c, name, v) ==
    CASE name = "Add" ->
           LET r == overflowing_add(c.acc, v)
           IN  ArithFlags([c EXCEPT !.acc = r.result], r)
      [] name = "Sub" ->
           LET r == overflowing_sub(c.acc, v)
           IN  ArithFlags([c EXCEPT !.acc = r.result], r)
      [] name = "Cmp" -> ArithFlags(c, overflowing_sub(c.acc, v))
      [] name = "And" -> LogicFlags([c EXCEPT !.acc = BitAnd(c.acc, v)])
      [] name = "Xor" -> LogicFlags([c EXCEPT !.acc = BitXor(c.acc, v)])
      [] name = "Or"  -> LogicFlags([c EXCEPT !.acc = BitOr(c.acc, v)])
      [] name = "Lsl" ->
           IF v >= 16 /\ overflow_checks THEN Panic(c)
           ELSE LogicFlags([c EXCEPT !.acc = (c.acc * Pow2(v % 16)) % U16])
      [] name = "Lsr" ->
           IF v >= 16 /\ overflow_checks THEN Panic(c)
           ELSE LogicFlags([c EXCEPT !.acc = c.acc \div Pow2(v % 16)])

\* ADD, SUB, CMP, AND, XOR, OR, LSL, LSR: the immediate form applies the
\* operand; the address form checks the bound, reads the cell into MDR and
\* applies its value, or reports InvalidLoad for an instruction cell
Operate(c, name, operand, cur_ins_add) ==
    IF operand.kind = "Immediate" THEN Apply(c, name, operand.value)
    ELSE IF operand.kind = "Address" THEN
        LET a  == operand.value
            c1 == [c EXCEPT !.mar = a]
        IN  IF a > 255 THEN Halt(c1, AddressNotInMemory(cur_ins_add, a))
            ELSE LET c2 == [c1 EXCEPT !.mdr = c.memory[a]]
                 IN  IF c.memory[a].tag = "Value"
                     THEN Apply(c2, name, c.memory[a].value)
                     ELSE Halt(c2, InvalidLoad(cur_ins_add, a))
    ELSE Panic(c)

\* a conversion that takes every 16-bit value for a character
from_u32_or_replacement_Unchecked(v) == v

\* std::char::from_u32(acc as u32), with the replacement character pushed
\* instead when the value is a surrogate
from_u32_or_replacement(v) == IF v >= 55296 /\ v <= 57343 THEN 65533 ELSE v

\* LDD without the check that the cell holds a Value
ExecLdd_AnyCell(c, operand, cur_ins_add) ==
    LET a == operand.value
    IN  IF a >= MemSize THEN Panic([c EXCEPT !.mar = a])
        ELSE [c EXCEPT !.mar = a, !.mdr = Value(c.memory[a].value),
                       !.acc = c.memory[a].value + 1]

\* Opcode::Ldd
ExecLdd(c, operand, cur_ins_add) ==
    IF operand.kind /= "Address" THEN Panic(c)
    ELSE LET a  == operand.value
             c1 == [c EXCEPT !.mar = a]
         IN  IF a >= MemSize THEN Panic(c1)
             ELSE IF c.memory[a].tag = "Value"
                  THEN [c1 EXCEPT !.mdr = Value(c.memory[a].value),
                                  !.acc = c.memory[a].value]
                  ELSE Halt(c1, InvalidLoad(cur_ins_add, a))

\* Opcode::Ldi
ExecLdi(c, operand, cur_ins_add) ==
    IF operand.kind /= "Address" THEN Panic(c)
    ELSE LET a  == operand.value
             c1 == [c EXCEPT !.mar = a]
         IN  IF a >= MemSize THEN Panic(c1)
             ELSE IF c.memory[a].tag = "Value" THEN
                 LET v  == c.memory[a].value
                     c2 == [c1 EXCEPT !.mdr = Value(v), !.mar = v]
                 IN  IF v > 255 THEN Halt(c2, AddressNotInMemory(cur_ins_add, v))
                     ELSE IF c.memory[v].tag = "Value"
                          THEN [c2 EXCEPT !.acc = c.memory[v].value]
                          ELSE Halt(c2, InvalidLoad(cur_ins_add, v))
             ELSE Halt(c1, InvalidLoad(cur_ins_add, a))

\* Opcode::Ldx
ExecLdx(c, operand, cur_ins_add) ==
    IF operand.kind /= "Address" THEN Panic(c)
    ELSE LET ea == CheckedSum(operand.value, c.ix)
             c1 == [c EXCEPT !.mar = ea]
         IN  IF ea < 0 THEN Panic(c)
             ELSE IF ea > 255 THEN Halt(c1, AddressNotInMemory(cur_ins_add, ea))
             ELSE IF c.memory[ea].tag = "Value"
                  THEN [c1 EXCEPT !.mdr = Value(c.memory[ea].value),
                                  !.acc = c.memory[ea].value]
                  ELSE Halt(c1, InvalidLoad(cur_ins_add, ea))

\* STO that writes only over cells holding a value
ExecSto_KeepsInstructions(c, operand, cur_ins_add) ==
    IF operand.kind /= "Address" THEN Panic(c)
    ELSE LET a  == operand.value
             c1 == [c EXCEPT !.mar = a, !.mdr = Value(c.acc)]
         IN  IF a > 255 THEN Halt(c1, AddressNotInMemory(cur_ins_add, a))
             ELSE IF c.memory[a].tag = "Instruction" THEN c1
             ELSE [c1 EXCEPT !.memory[a] = Value(c.acc)]

\* Opcode::Sto
ExecSto(c, operand, cur_ins_add) ==
    IF operand.kind /= "Address" THEN Panic(c)
    ELSE LET a  == operand.value
             c1 == [c EXCEPT !.mar = a, !.mdr = Value(c.acc)]
         IN  IF a > 255 THEN Halt(c1, AddressNotInMemory(cur_ins_add, a))
             ELSE [c1 EXCEPT !.memory[a] = Value(c.acc)]

\* Opcode::Inc and Opcode::Dec
ExecIncDec(c, name, operand) ==
    IF operand.kind /= "Register" THEN Panic(c)
    ELSE LET old == IF operand.reg = "Ix" THEN c.ix ELSE c.acc
             r   == IF name = "Inc" THEN overflowing_add(old, 1)
                    ELSE overflowing_sub(old, 1)
         IN  IF operand.reg = "Ix"
             THEN IncDecFlags([c EXCEPT !.ix = r.result], r)
             ELSE IncDecFlags([c EXCEPT !.acc = r.result], r)

\* a jump that makes no bounds check
JumpTo_Unchecked(c, operand, cur_ins_add) == [c EXCEPT !.pc = operand.value]

\* Opcode::Jmp, and Opcode::Jpe / Opcode::Jpn when the branch is taken
JumpTo(c, operand, cur_ins_add) ==
    LET a == operand.value
    IN  IF a > 255 THEN Halt(c, AddressNotInMemory(cur_ins_add, a))
        ELSE [c EXCEPT !.pc = a]

\* Opcode::Cmi
ExecCmi(c, operand, cur_ins_add) ==
    IF operand.kind /= "Address" THEN Panic(c)
    ELSE LET a  == operand.value
             c1 == [c EXCEPT !.mar = a]
         IN  IF a > 255 THEN Halt(c1, AddressNotInMemory(cur_ins_add, a))
             ELSE IF c.memory[a].tag = "Value" THEN
                 LET v  == c.memory[a].value
                     c2 == [c1 EXCEPT !.mdr = c.memory[a], !.mar = v]
                 IN  IF v > 255 THEN Halt(c2, AddressNotInMemory(cur_ins_add, v))
                     ELSE LET c3 == [c2 EXCEPT !.mdr = c.memory[v]]
                          IN  IF c.memory[v].tag = "Value"
                              THEN ArithFlags(c3, overflowing_sub(c.acc, c.memory[v].value))
                              ELSE Halt(c3, InvalidLoad(cur_ins_add, v))
             ELSE Halt([c1 EXCEPT !.mdr = c.memory[a]], InvalidLoad(cur_ins_add, a))

\* IN that always suspends in step mode
ExecIn_AlwaysStepping(c) ==
    [c EXCEPT !.execution_state = "SteppingAwaitingInput"]

\* Opcode::In
ExecIn(c) ==
    IF c.execution_state = "Executing"
    THEN [c EXCEPT !.execution_state = "ExecutingAwaitingInput"]
    ELSE [c EXCEPT !.execution_state = "SteppingAwaitingInput"]

\* OUT that shows nothing
ExecOut_Silent(c) == c

\* Opcode::Out
ExecOut(c) == [c EXCEPT !.output = Append(c.output, from_u32_or_replacement(c.acc))]

\* the match on current_instruction.0 of AppContext::step; c has CIR set and
\* PC already advanced, cur_ins_add is the address of the instruction
Execute(c, opcode, operand, cur_ins_add) ==
    LET name == opcode.name
    IN  CASE name = "Ldm" ->
               IF operand.kind = "Immediate" THEN [c EXCEPT !.acc = operand.value]
               ELSE Panic(c)
          [] name = "Ldd" -> ExecLdd(c, operand, cur_ins_add)
          [] name = "Ldi" -> ExecLdi(c, operand, cur_ins_add)
          [] name = "Ldx" -> ExecLdx(c, operand, cur_ins_add)
          [] name = "Ldr" ->
               IF operand.kind = "Immediate" THEN [c EXCEPT !.ix = operand.value]
               ELSE Panic(c)
          [] name = "Mov" ->
               IF operand.kind /= "Register" THEN Panic(c)
               ELSE IF operand.reg = "Ix" THEN [c EXCEPT !.ix = c.acc]
               ELSE c
          [] name = "Sto" -> ExecSto(c, operand, cur_ins_add)
          [] name \in {"Add", "Sub", "Cmp", "And", "Xor", "Or", "Lsl", "Lsr"} ->
               Operate(c, name, operand, cur_ins_add)
          [] name \in {"Inc", "Dec"} -> ExecIncDec(c, name, operand)
          [] name = "Jmp" ->
               IF operand.kind /= "Address" THEN Panic(c)
               ELSE JumpTo(c, operand, cur_ins_add)
          [] name = "Cmi" -> ExecCmi(c, operand, cur_ins_add)
          [] name = "Jpe" ->
               IF operand.kind /= "Address" THEN Panic(c)
               ELSE IF c.zero THEN JumpTo(c, operand, cur_ins_add) ELSE c
          [] name = "Jpn" ->
               IF operand.kind /= "Address" THEN Panic(c)
               ELSE IF ~c.zero THEN JumpTo(c, operand, cur_ins_add) ELSE c
          [] name = "In"  -> ExecIn(c)
          [] name = "Out" -> ExecOut(c)
          [] name = "End" -> Halt(c, ExecutionTerminated(cur_ins_add))
          [] name = "Data" -> Panic(c)

\* a fetch that steps over a Value cell it stopped on
Fetch_PastValue(c) ==
    IF c.pc >= MemSize THEN Panic([c EXCEPT !.mar = c.pc])
    ELSE LET cell == c.memory[c.pc]
             c1   == [c EXCEPT !.mar = c.pc, !.mdr = cell]
         IN  IF cell.tag = "Value"
             THEN Halt([c1 EXCEPT !.pc = c.pc + 1], ExecutionTerminated(c.pc))
             ELSE Execute([c1 EXCEPT !.cir = <<cell.opcode, cell.operand>>,
                                     !.pc = c.pc + 1],
                          cell.opcode, cell.operand, c.pc)

\* the fetch of AppContext::step: MAR and MDR take the cell at PC; a Value
\* cell stops the engine, an Instruction goes to CIR and PC advances
Fetch(c) ==
    IF c.pc >= MemSize THEN Panic([c EXCEPT !.mar = c.pc])
    ELSE LET cell == c.memory[c.pc]
             c1   == [c EXCEPT !.mar = c.pc, !.mdr = cell]
         IN  IF cell.tag = "Value" THEN
                 IF cell.value = 0
                 THEN Halt(c1, ExecutionTerminated(c.pc))
                 ELSE Halt(c1, ExecutionAbortedValueMet(c.pc, cell.value))
             ELSE Execute([c1 EXCEPT !.cir = <<cell.opcode, cell.operand>>,
                                     !.pc = c.pc + 1],
                          cell.opcode, cell.operand, c.pc)

\* AppContext::step
step(c) ==
    Fetch(IF c.ins_executed >= StepWarnAt
          THEN [c EXCEPT !.execution_info = TooManySteps(c.ins_executed)]
          ELSE c)

(***************************************************************************)
(* Program loader (app.rs, the "Assemble and load" button)                 *)
(***************************************************************************)
RECURSIVE LoadFrom(_, _, _)
\* a loader that stores a data word as an instruction cell
LoadFrom_DataAsInstruction(c, program, i) ==
    IF i >= Len(program) THEN c
    ELSE LoadFrom([c EXCEPT !.memory[c.program_load_location + i] =
                      Instruction(program[i + 1][1], program[i + 1][2])],
                  program, i + 1)

\* the loop over program.iter().enumerate() from index i (0-based) on: a
\* Data element becomes a Value cell, an Address operand is relocated by the
\* load location (the u16 sum panics in a checked build when it overflows)
LoadFrom(c, program, i) ==
    IF i >= Len(program) THEN c
    ELSE LET opcode  == program[i + 1][1]
             operand == program[i + 1][2]
             L       == c.program_load_location
         IN  IF opcode.name = "Data"
             THEN LoadFrom([c EXCEPT !.memory[L + i] = Value(opcode.value)],
                           program, i + 1)
             ELSE IF operand.kind = "Address" THEN
                 LET a == CheckedSum(operand.value, L)
                 IN  IF a < 0 THEN Panic(c)
                     ELSE LoadFrom([c EXCEPT !.memory[L + i] =
                                        Instruction(opcode, Address(a))],
                                   program, i + 1)
             ELSE LoadFrom([c EXCEPT !.memory[L + i] = Instruction(opcode, operand)],
                           program, i + 1)

ProgramTooLong(n, avail) ==
    [kind |-> "ProgramTooLong", program_size |-> n, memory_available |-> avail]

\* a load that also points PC at the load location
LoadResult_SetsPc(c, r) ==
    IF r.ok THEN
        IF Len(r.val) > 256 - c.program_load_location
        THEN [c EXCEPT !.assembler_error =
                  ProgramTooLong(Len(r.val), 256 - c.program_load_location)]
        ELSE LoadFrom([c EXCEPT !.pc = c.program_load_location], r.val, 0)
    ELSE [c EXCEPT !.assembler_error = r.val]

\* lines 115-145: r is the result of assemble
LoadResult(c, r) ==
    IF r.ok THEN
        IF Len(r.val) > 256 - c.program_load_location
        THEN [c EXCEPT !.assembler_error =
                  ProgramTooLong(Len(r.val), 256 - c.program_load_location)]
        ELSE LoadFrom(c, r.val, 0)
    ELSE [c EXCEPT !.assembler_error = r.val]

\* the handler of the "Assemble and load" button
AssembleAndLoad(c) == LoadResult(c, assemble(c.source_code))

\* Send with the stepping-mode arm resuming the run instead of stopping
Send_AlwaysResumes(c) ==
    [c EXCEPT !.execution_state = "Executing",
              !.acc = Head(c.input) % U16,
              !.input = <<>>]

\* the handler of the "Send" button of the console
Send(c) ==
    [c EXCEPT !.execution_state =
                  IF c.execution_state = "ExecutingAwaitingInput"
                  THEN "Executing" ELSE "Stopped",
              !.acc = Head(c.input) % U16,
              !.input = <<>>]

\* a stop that also wipes the console output
Terminate_ClearsOutput(c) ==
    [c EXCEPT !.execution_state = "Stopped", !.output = <<>>]

\* the handler of the "Terminate" button
Terminate(c) == [c EXCEPT !.execution_state = "Stopped"]

\* a reset of the registers that leaves memory as it is
Reset_KeepsMemory(c) ==
    [c EXCEPT !.execution_state = "Stopped", !.pc = 0,
              !.cir = <<Op("End"), Empty>>, !.ix = 0, !.mdr = Value(0),
              !.mar = 0, !.acc = 0, !.carry = FALSE, !.zero = FALSE,
              !.overflow = FALSE, !.sign = FALSE, !.output = <<>>]

\* the handler of the "Reset registers and memory" button
Reset(c) ==
    [c EXCEPT !.execution_state = "Stopped", !.pc = 0,
              !.cir = <<Op("End"), Empty>>, !.ix = 0, !.mdr = Value(0),
              !.mar = 0, !.acc = 0, !.carry = FALSE, !.zero = FALSE,
              !.overflow = FALSE, !.sign = FALSE, !.output = <<>>,
              !.memory = [a \in 0..(MemSize - 1) |-> Value(0)]]

\* an update that never restarts the step counter
ResetCounterIfStopped_Never(c) == c

\* lines 1121-1123 of update: the step counter restarts while Stopped
ResetCounterIfStopped(c) ==
    IF c.execution_state = "Stopped" THEN [c EXCEPT !.ins_executed = 0] ELSE c

\* lines 1104-1119 of update when the step is due: step, then count it
TimedStepOf(c) ==
    LET c1 == step(c)
    IN  IF c1.panicked THEN c1 ELSE [c1 EXCEPT !.ins_executed = c.ins_executed + 1]

(***************************************************************************)
(* Bounds of the model and the inputs the host draws from                  *)
(***************************************************************************)
MaxOutput == 1

MaxInsExecuted == 6

Awaiting == {"ExecutingAwaitingInput", "SteppingAwaitingInput"}

RECURSIVE DecText(_)
\* the decimal text of n
DecText(n) ==
    IF n < 10 THEN <<HexDigits[n + 1]>>
    ELSE DecText(n \div 10) \o <<HexDigits[(n % 10) + 1]>>

RECURSIVE Text(_)
\* the source text of a sequence of lines, one "\n" after each line
Text(ls) == IF ls = <<>> THEN <<>> ELSE Head(ls) \o <<"\n">> \o Text(Tail(ls))

\* a source line: mnemonic, blank, operand text
Line(m, operandText) == MnemonicText[m] \o <<" ">> \o operandText

\* programs typed into the source editor
SrcInOut   == Text(<<MnemonicText["In"], MnemonicText["Out"]>>)
SrcJmpHigh == Text(<<Line("Jmp", DecText(254))>>)

Sources == {SrcInOut, SrcJmpHigh}

LoadLocations == {0, 254}

\* characters the user types into the console input: "H" and U+1F600, which
\* lies outside the basic multilingual plane
InputChars == {72, 128512}

\* the program the source editor holds when the application starts
DEFAULT_PROGRAM ==
    <<"l", "o", "o", "p", ":", "\n">> \o
    <<" ", " ", " ", " ", "L", "D", "X", " ", "s", "t", "r", "i", "n", "g", "\n">> \o
    <<" ", " ", " ", " ", "O", "U", "T", "\n">> \o
    <<" ", " ", " ", " ", "I", "N", "C", " ", "I", "X", "\n">> \o
    <<" ", " ", " ", " ", "L", "D", "D", " ", "c", "o", "u", "n", "t", "\n">> \o
    <<" ", " ", " ", " ", "D", "E", "C", " ", "A", "C", "C", "\n">> \o
    <<" ", " ", " ", " ", "S", "T", "O", " ", "c", "o", "u", "n", "t", "\n">> \o
    <<" ", " ", " ", " ", "C", "M", "P", " ", "#", "0", "\n">> \o
    <<" ", " ", " ", " ", "J", "P", "N", " ", "l", "o", "o", "p", "\n">> \o
    <<" ", " ", " ", " ", "E", "N", "D", "\n">> \o
    <<"\n">> \o
    <<"c", "o", "u", "n", "t", ":", " ", " ", "#", "1", "2", "\n">> \o
    <<"\n">> \o
    <<"s", "t", "r", "i", "n", "g", ":", "\n">> \o
    <<" ", " ", " ", " ", " ", " ", " ", " ", "&", "4", "8", "\n">> \o
    <<" ", " ", " ", " ", " ", " ", " ", " ", "&", "6", "5", "\n">> \o
    <<" ", " ", " ", " ", " ", " ", " ", " ", "&", "6", "c", "\n">> \o
    <<" ", " ", " ", " ", " ", " ", " ", " ", "&", "6", "c", "\n">> \o
    <<" ", " ", " ", " ", " ", " ", " ", " ", "&", "6", "f", "\n">> \o
    <<" ", " ", " ", " ", " ", " ", " ", " ", "&", "2", "c", "\n">> \o
    <<" ", " ", " ", " ", " ", " ", " ", " ", "&", "2", "0", "\n">> \o
    <<" ", " ", " ", " ", " ", " ", " ", " ", "&", "7", "7", "\n">> \o
    <<" ", " ", " ", " ", " ", " ", " ", " ", "&", "6", "f", "\n">> \o
    <<" ", " ", " ", " ", " ", " ", " ", " ", "&", "7", "2", "\n">> \o
    <<" ", " ", " ", " ", " ", " ", " ", " ", "&", "6", "c", "\n">> \o
    <<" ", " ", " ", " ", " ", " ", " ", " ", "&", "6", "4", "\n">>

(***************************************************************************)
(* The host: one frame of CaieAsmApp::update is the clock part followed by *)
(* the handling of at most one widget                                      *)
(***************************************************************************)
Init ==
    /\ source_code = DEFAULT_PROGRAM
    /\ memory = [a \in 0..(MemSize - 1) |-> Value(0)]
    /\ program_load_location = 0
    /\ pc = 0
    /\ cir = <<Op("End"), Empty>>
    /\ ix = 0
    /\ mdr = Value(0)
    /\ mar = 0
    /\ acc = 0
    /\ carry = FALSE
    /\ zero = FALSE
    /\ overflow = FALSE
    /\ sign = FALSE
    /\ output = <<>>
    /\ input = <<>>
    /\ execution_state = "Stopped"
    /\ assembler_error = None
    /\ ins_executed = 0
    /\ execution_info = None
    /\ panicked = FALSE
    /\ overflow_checks \in BOOLEAN
    /\ at = "clock"
    /\ last_input = -1
    /\ loads = 0

\* an engine result the model follows: output and step count within bounds
Within(c) == Len(c.output) <= MaxOutput /\ c.ins_executed <= MaxInsExecuted

\* update, lines 1104-1123, the step being due
TimedStep ==
    /\ at = "clock" /\ ~panicked
    /\ execution_state = "Executing"
    /\ LET c == ResetCounterIfStopped(TimedStepOf(Ctx))
       IN  Within(TimedStepOf(Ctx)) /\ Commit(c)
    /\ at' = "widgets"
    /\ last_input' = -1
    /\ loads' = loads

\* update, lines 1104-1123, when not Executing or the step is not yet due
NoTimedStep ==
    /\ at = "clock" /\ ~panicked
    /\ Commit(ResetCounterIfStopped(Ctx))
    /\ at' = "widgets"
    /\ last_input' = last_input
    /\ loads' = loads

\* a frame in which no widget is used
NoClick ==
    /\ at = "widgets" /\ ~panicked
    /\ Commit(Ctx)
    /\ at' = "clock"
    /\ last_input' = last_input
    /\ loads' = loads

\* the "Execute" button, shown while Stopped
ClickExecute ==
    /\ at = "widgets" /\ ~panicked
    /\ execution_state = "Stopped"
    /\ Commit([Ctx EXCEPT !.execution_state = "Executing"])
    /\ at' = "clock"
    /\ last_input' = -1
    /\ loads' = loads

\* the "Terminate" button, shown while not Stopped
ClickTerminate ==
    /\ at = "widgets" /\ ~panicked
    /\ execution_state /= "Stopped"
    /\ Commit(Terminate(Ctx))
    /\ at' = "clock"
    /\ last_input' = -1
    /\ loads' = loads

\* the "Step" button
ClickStep ==
    /\ at = "widgets" /\ ~panicked
    /\ Within(step(Ctx))
    /\ Commit(step(Ctx))
    /\ at' = "clock"
    /\ last_input' = -1
    /\ loads' = loads

\* the "Reset registers and memory" button
ClickReset ==
    /\ at = "widgets" /\ ~panicked
    /\ Commit(Reset(Ctx))
    /\ at' = "clock"
    /\ last_input' = -1
    /\ loads' = loads

\* the "Assemble and load" button, pressed after the user has put one of
\* the texts S into the source editor and dragged "Load program to" (range
\* 0..=255) to one of Ls; neither edit touches the engine before the click
ClickAssembleAndLoad(S, Ls) ==
    /\ at = "widgets" /\ ~panicked
    /\ \E src \in S, L \in Ls :
           Commit(AssembleAndLoad([Ctx EXCEPT !.source_code = src,
                                              !.program_load_location = L]))
    /\ at' = "clock"
    /\ last_input' = last_input
    /\ loads' = loads

\* the same click, counted: at most max of them in a behaviour
CountedAssembleAndLoad(S, Ls, max) ==
    /\ at = "widgets" /\ ~panicked
    /\ loads < max
    /\ \E src \in S, L \in Ls :
           Commit(AssembleAndLoad([Ctx EXCEPT !.source_code = src,
                                              !.program_load_location = L]))
    /\ at' = "clock"
    /\ last_input' = last_input
    /\ loads' = loads + 1

\* the same click on a machine that has not run yet: registers, memory and
\* output as at start, nothing reported
FreshAssembleAndLoad(S, Ls) ==
    /\ at = "widgets" /\ ~panicked
    /\ Reset(Ctx) = Ctx
    /\ execution_info = None
    /\ \E src \in S, L \in Ls :
           Commit(AssembleAndLoad([Ctx EXCEPT !.source_code = src,
                                              !.program_load_location = L]))
    /\ at' = "clock"
    /\ last_input' = last_input
    /\ loads' = loads

\* the same click as the first thing done in the application: the editor
\* still held the text it starts with, the engine is as started, and there
\* is no report and no assembler error yet
FirstAssembleAndLoad(S, Ls) ==
    /\ at = "widgets" /\ ~panicked
    /\ source_code = DEFAULT_PROGRAM
    /\ Reset(Ctx) = Ctx
    /\ execution_info = None
    /\ assembler_error = None
    /\ \E src \in S, L \in Ls :
           Commit(AssembleAndLoad([Ctx EXCEPT !.source_code = src,
                                              !.program_load_location = L]))
    /\ at' = "clock"
    /\ last_input' = last_input
    /\ loads' = loads

\* the console input line (char_limit 1), enabled while awaiting input
TypeInput ==
    /\ at = "widgets" /\ ~panicked
    /\ execution_state \in Awaiting
    /\ \E ch \in InputChars : Commit([Ctx EXCEPT !.input = <<ch>>])
    /\ at' = "clock"
    /\ last_input' = last_input
    /\ loads' = loads

\* the "Send" button, enabled while awaiting input with a nonempty buffer
ClickSend ==
    /\ at = "widgets" /\ ~panicked
    /\ execution_state \in Awaiting
    /\ input /= <<>>
    /\ Commit(Send(Ctx))
    /\ at' = "clock"
    /\ last_input' = Head(input)
    /\ loads' = loads

Next ==
    \/ TimedStep
    \/ NoTimedStep
    \/ NoClick
    \/ ClickExecute
    \/ ClickTerminate
    \/ ClickStep
    \/ ClickReset
    \/ ClickAssembleAndLoad(Sources, LoadLocations)
    \/ TypeInput
    \/ ClickSend

Spec == Init /\ [][Next]_vars

(***************************************************************************)
(* Properties of the input suspension protocol and of PC, under Spec       *)
(***************************************************************************)
InAt(a)  == a \in 0..(MemSize - 1) /\ memory[a] = Instruction(Op("In"), Empty)
OutAt(a) == a \in 0..(MemSize - 1) /\ memory[a] = Instruction(Op("Out"), Empty)

\* what a program's progress shows in
Progress == <<pc, cir, acc, ix, carry, zero, overflow, sign, memory, output>>

\* C1: continuous run of IN immediately followed by OUT: the timed step on
\* IN leaves ExecutingAwaitingInput, host ticks keep that state, Send
\* returns to Executing, and the timed step on OUT that follows appends
\* exactly the character that was sent
C1_InThenOutEchoes ==
    [][/\ (TimedStep /\ InAt(pc) /\ OutAt(pc + 1))
              => execution_state' = "ExecutingAwaitingInput"
       /\ (execution_state = "ExecutingAwaitingInput"
              /\ (TimedStep \/ NoTimedStep \/ NoClick \/ TypeInput))
              => execution_state' = "ExecutingAwaitingInput"
       /\ (execution_state = "ExecutingAwaitingInput" /\ ClickSend)
              => execution_state' = "Executing"
       /\ (TimedStep /\ last_input >= 0 /\ InAt(pc - 1) /\ OutAt(pc)
              /\ cir = <<Op("In"), Empty>>)
              => output' = Append(output, last_input)]_vars

\* C2: while awaiting input, host ticks, typing and the Step button leave
\* PC, CIR, ACC, IX, the flags, memory and output unchanged
C2_NoProgressWhileAwaiting ==
    [][(execution_state \in Awaiting
           /\ (TimedStep \/ NoTimedStep \/ NoClick \/ TypeInput \/ ClickStep))
          => UNCHANGED Progress]_vars

\* C3: the Step button never moves the engine out of an AwaitingInput
\* state; from such a state the execution state changes only by Send,
\* Terminate or Reset
C3_OnlyInputLeavesAwaiting ==
    [][/\ (execution_state \in Awaiting /\ ClickStep)
              => execution_state' = execution_state
       /\ (execution_state \in Awaiting /\ execution_state' /= execution_state)
              => (ClickSend \/ ClickTerminate \/ ClickReset)]_vars

\* C4: Send happens only in an AwaitingInput state with a buffer of one
\* character; it moves ExecutingAwaitingInput to Executing and
\* SteppingAwaitingInput to Stopped, empties the buffer and leaves PC, CIR,
\* IX, the flags, memory and output unchanged
C4_SupplyInput ==
    [][ClickSend =>
          /\ execution_state \in Awaiting
          /\ Len(input) = 1
          /\ execution_state' = IF execution_state = "ExecutingAwaitingInput"
                                THEN "Executing" ELSE "Stopped"
          /\ input' = <<>>
          /\ UNCHANGED <<pc, cir, ix, carry, zero, overflow, sign, memory,
                         output>>]_vars

\* a state right after Send completed a step-mode input
C4_Witness ==
    last_input >= 0 /\ input = <<>> /\ execution_state = "Stopped"

\* C5: after Send of the character c, ACC is the code point of c
C5_AccIsCodePoint == [][ClickSend => acc' = Head(input)]_vars

\* C6: PC always references one of the 256 memory cells
C6_PcInMemory == pc \in 0..255

(***************************************************************************)
(* Address operands: every opcode that takes an address, run against an    *)
(* instruction cell, value cells and an address outside memory             *)
(***************************************************************************)
AddressedOps ==
    {"Ldd", "Ldi", "Ldx", "Sto", "Add", "Sub", "Cmp", "Cmi", "And", "Xor",
     "Or", "Jmp", "Jpe", "Jpn"}

\* cell 0 holds an instruction, cell 2 the value 0 (a pointer to cell 0),
\* 256 is outside memory
AddrChoices == {0, 2, 256}

\* the line under test after CMP #1, which leaves carry, overflow and sign
\* set and zero clear; JPE also after CMP #0, which leaves zero set; LDX
\* also after LDR #1, which makes IX 1
AddrSources ==
    {Text(<<Line("Cmp", <<"#", "1">>), Line(m, DecText(a))>>) :
        m \in AddressedOps, a \in AddrChoices}
    \cup {Text(<<Line("Cmp", <<"#", "0">>), Line("Jpe", DecText(a))>>) :
        a \in AddrChoices}
    \cup {Text(<<Line("Ldr", <<"#", "1">>), Line("Ldx", DecText(a))>>) :
        a \in {0, 255}}

MaxAddrLoads == 1

AddrLoadLocations == {0}

NextAddr ==
    \/ TimedStep
    \/ NoTimedStep
    \/ NoClick
    \/ ClickExecute
    \/ ClickTerminate
    \/ ClickStep
    \/ ClickReset
    \/ CountedAssembleAndLoad(AddrSources, AddrLoadLocations, MaxAddrLoads)

SpecAddr == Init /\ [][NextAddr]_vars

\* a call of AppContext::step
StepTaken == TimedStep \/ ClickStep

\* the cell at PC is an instruction with one of the opcodes ops and an
\* Address operand
FetchesAddressed(ops) ==
    /\ pc \in 0..(MemSize - 1)
    /\ memory[pc].tag = "Instruction"
    /\ memory[pc].opcode.name \in ops
    /\ memory[pc].operand.kind = "Address"

\* the conditional jump at PC would be taken
BranchTaken ==
    /\ memory[pc].opcode.name = "Jpe" => zero
    /\ memory[pc].opcode.name = "Jpn" => ~zero

\* C7: a step executing an address opcode whose address is above 255 reads
\* and writes no cell outside memory, reports AddressNotInMemory with the
\* address of the instruction and the requested address, and stops
C7_AddressAbove255Fails ==
    [][(StepTaken /\ FetchesAddressed(AddressedOps) /\ BranchTaken
           /\ memory[pc].operand.value > 255)
          => /\ ~panicked'
             /\ execution_info' =
                    AddressNotInMemory(pc, memory[pc].operand.value)
             /\ execution_state' = "Stopped"]_vars

LoadingOps ==
    {"Ldd", "Ldi", "Ldx", "Add", "Sub", "Cmp", "Cmi", "And", "Xor", "Or"}

\* the cell the instruction at PC reads its value from, or the instruction
\* cell an indirect opcode finds on its way there; -1 when that is outside
\* memory
TargetCell ==
    LET name == memory[pc].opcode.name
        a    == memory[pc].operand.value
    IN  IF name = "Ldx" THEN (IF a + ix <= 255 THEN a + ix ELSE -1)
        ELSE IF a > 255 THEN -1
        ELSE IF name \in {"Ldi", "Cmi"} /\ memory[a].tag = "Value"
             THEN (IF memory[a].value <= 255 THEN memory[a].value ELSE -1)
        ELSE a

\* C8: a step whose load targets a cell holding an Instruction reports
\* InvalidLoad with the address of the executing instruction and the
\* requested address, leaves ACC and the four flags as they were and stops
C8_InvalidLoad ==
    [][(StepTaken /\ FetchesAddressed(LoadingOps) /\ TargetCell >= 0
           /\ memory[TargetCell].tag = "Instruction")
          => /\ execution_info' = InvalidLoad(pc, TargetCell)
             /\ execution_state' = "Stopped"
             /\ UNCHANGED <<acc, carry, zero, overflow, sign>>]_vars

\* an indirect compare has stopped on an instruction cell with flags set
C8_Witness ==
    /\ execution_info.kind = "InvalidLoad"
    /\ execution_state = "Stopped"
    /\ cir[1].name = "Cmi"
    /\ carry /\ sign

(***************************************************************************)
(* The assembler: the user assembles one-line programs, every opcode token *)
(* with every operand token, and the program the editor starts with        *)
(***************************************************************************)
\* first tokens of a line: the 24 mnemonics, the three forms of a data
\* word, and two tokens that are no opcode
OpcodeTokens ==
    {MnemonicText[m] : m \in Mnemonics}
    \cup {<<"#", "5">>, <<"&", "F">>, <<"B", "1", "1">>, <<"5">>, <<"N", "O", "P">>}

\* second tokens: none, a number, an address, a register, the label of the
\* line, an unknown symbol
OperandTokens ==
    {<<>>, <<"#", "1">>, <<"1">>, <<"I", "X">>, <<"L">>, <<"Q">>}

\* the line "L: <opcode> <operand>"
AsmLine(opTok, odTok) ==
    <<"L", ":", " ">> \o opTok \o (IF odTok = <<>> THEN <<>> ELSE <<" ">> \o odTok)

AsmSources ==
    {Text(<<AsmLine(o, d)>>) : o \in OpcodeTokens, d \in OperandTokens}
    \cup {DEFAULT_PROGRAM, Text(<<Line("Ldm", <<"#", "1", " ", "#", "1">>)>>)}

MaxAsmLoads == 1

NextAsm ==
    \/ NoTimedStep
    \/ NoClick
    \/ ClickReset
    \/ CountedAssembleAndLoad(AsmSources, {0}, MaxAsmLoads)

SpecAsm == Init /\ [][NextAsm]_vars

\* the operand kinds claim C9 allows for an opcode
C9_Allowed(name) ==
    CASE name \in {"Ldm", "Ldr", "Lsl", "Lsr"} -> {"Immediate"}
      [] name \in {"Ldd", "Ldi", "Ldx", "Sto", "Jmp", "Cmi", "Jpe", "Jpn"}
             -> {"Address"}
      [] name \in {"Mov", "Inc", "Dec"} -> {"Register"}
      [] name \in {"Add", "Sub", "Cmp", "And", "Xor", "Or"}
             -> {"Address", "Immediate"}
      [] name \in {"In", "Out", "End"} -> {"Empty"}
      [] name = "Data" -> {"Immediate"}

\* every element of program carries an operand kind allowed for its opcode,
\* a data word carrying its own value
C9_WellKinded(program) ==
    \A i \in 1..Len(program) :
        /\ program[i][2].kind \in C9_Allowed(program[i][1].name)
        /\ program[i][1].name = "Data"
               => program[i][2] = Immediate(program[i][1].value)

\* the text in the editor assembles
C9_Assembles(r) == r.ok /\ r.val # <<>>

\* C9: every instruction of a sequence returned by a successful assemble
\* has an operand kind allowed for its opcode
C9_OperandKinds ==
    assemble(source_code).ok => C9_WellKinded(assemble(source_code).val)

\* "L: ADD #1" has been assembled and loaded: an opcode that allows two
\* kinds, carrying a Number
C9_Witness ==
    /\ loads > 0
    /\ C9_Assembles(assemble(source_code))
    /\ assemble(source_code).val[1] = <<Op("Add"), Immediate(1)>>
    /\ memory[0] = Instruction(Op("Add"), Immediate(1))

(***************************************************************************)
(* The loader: programs with each kind of operand, a data word and the     *)
(* largest address the assembler emits, loaded at the ends of memory       *)
(***************************************************************************)
LoaderSources ==
    {Text(<<Line("Jmp", DecText(65535))>>),
     Text(<<Line("Ldd", DecText(3)), <<"#", "9">>>>),
     Text(<<Line("Ldm", <<"#", "7">>), Line("Mov", <<"I", "X">>),
            MnemonicText["In"]>>),
     Text(<<MnemonicText["End"]>>)}

LoaderLocations == {0, 1, 253, 254, 255}

MaxLoaderLoads == 2

\* a click on "Assemble and load" in SpecLoader
LoaderClick ==
    CountedAssembleAndLoad(LoaderSources, LoaderLocations, MaxLoaderLoads)

NextLoader ==
    \/ NoTimedStep
    \/ NoClick
    \/ ClickReset
    \/ LoaderClick

SpecLoader == Init /\ [][NextLoader]_vars

\* the cell claim C10 expects for an assembled element loaded at base L
C10_Stored(ins, L) ==
    IF ins[1].name = "Data" THEN Value(ins[1].value)
    ELSE IF ins[2].kind = "Address"
         THEN Instruction(ins[1], Address(ins[2].value + L))
    ELSE Instruction(ins[1], ins[2])

\* the loaded cells are the ones claim C10 expects
C10_LoadedAs(program, L, mem) ==
    \A i \in 1..Len(program) : mem[L + i - 1] = C10_Stored(program[i], L)

\* C10: loading an assembled sequence that fits at base L stores element i
\* at cell L+i, an Address(a) operand as Address(a+L) exactly, the other
\* operands unchanged, and a data word as a plain Value cell
C10_LoadRelocates ==
    [][(LoaderClick
           /\ assemble(source_code').ok
           /\ Len(assemble(source_code').val) <= MemSize - program_load_location')
          => /\ ~panicked'
             /\ C10_LoadedAs(assemble(source_code').val,
                             program_load_location', memory')]_vars

\* the cell holds the assembled element ins: a data word as a Value cell,
\* an instruction under its opcode
C11_Holds(cell, ins) ==
    IF ins[1].name = "Data" THEN cell = Value(ins[1].value)
    ELSE cell.tag = "Instruction" /\ cell.opcode = ins[1]

\* the click loaded program at L: nothing reported, every element in its cell
C11_Succeeds(program, L) ==
    /\ ~panicked'
    /\ assembler_error' = assembler_error
    /\ \A i \in 1..Len(program) : C11_Holds(memory'[L + i - 1], program[i])

\* the click reported ProgramTooLong and left memory alone
C11_Fails(program, L) ==
    /\ assembler_error' = ProgramTooLong(Len(program), 256 - L)
    /\ memory' = memory

\* C11: loading an assembled sequence at L succeeds if and only if its
\* length is at most 256 - L; otherwise it fails with ProgramTooLong{length,
\* 256 - L} and changes no memory cell
C11_LoadFitsOrFails ==
    [][(LoaderClick
           /\ assemble(source_code').ok)
          => IF Len(assemble(source_code').val) <= 256 - program_load_location'
             THEN C11_Succeeds(assemble(source_code').val,
                               program_load_location')
             ELSE C11_Fails(assemble(source_code').val,
                            program_load_location')]_vars

(***************************************************************************)
(* Arithmetic: ADD, SUB and CMP in both operand forms on chosen values of  *)
(* ACC and of the operand, and ADD #1 in a loop through every value of ACC *)
(***************************************************************************)
AccChoices == {0, 5, 32768, 65535}

ValChoices == {1, 5, 6, 32768, 65535}

ArithOps == {"Add", "Sub", "Cmp"}

\* "#" followed by the decimal text of v
Num(v) == <<"#">> \o DecText(v)

\* ADD #1 forever
SrcAddLoop == Text(<<Line("Add", Num(1)), Line("Jmp", DecText(0))>>)

\* ACC is loaded with a and the opcode applied to v, as a number and as the
\* content of cell 2
ArithSamples ==
    {Text(<<Line("Ldm", Num(a)), Line(m, Num(v))>>) :
        m \in ArithOps, a \in AccChoices, v \in ValChoices}
    \cup {Text(<<Line("Ldm", Num(a)), Line(m, DecText(2)), Num(v)>>) :
        m \in ArithOps, a \in AccChoices, v \in ValChoices}

ArithSources == ArithSamples \cup {SrcAddLoop}

NextArith ==
    \/ NoTimedStep
    \/ NoClick
    \/ ClickStep
    \/ FreshAssembleAndLoad(ArithSources, {0})

\* the same without the loop
NextSamples ==
    \/ NoTimedStep
    \/ NoClick
    \/ ClickStep
    \/ FreshAssembleAndLoad(ArithSamples, {0})

SpecSamples == Init /\ [][NextSamples]_vars

SpecArith == Init /\ [][NextArith]_vars

\* the cell at PC is an instruction with opcode name whose operand is the
\* number v or the address of a cell holding the value v
Applies(name, v) ==
    /\ pc \in 0..(MemSize - 1)
    /\ memory[pc].tag = "Instruction"
    /\ memory[pc].opcode.name = name
    /\ \/ memory[pc].operand = Immediate(v)
       \/ /\ memory[pc].operand.kind = "Address"
          /\ memory[pc].operand.value <= 255
          /\ memory[memory[pc].operand.value] = Value(v)

\* the operand values that occur in SpecArith
ArithValues == ValChoices \cup AccChoices

\* C12: a step executing ADD with operand value v sets ACC to (ACC + v) mod
\* 2^16, carry and overflow to (ACC + v >= 2^16), zero to (result = 0) and
\* sign to bit 15 of the result; with v = 1 carry, overflow and zero are set
\* on the step from 65535 to 0 and on no other
C12_AddWraps ==
    [][\A v \in ArithValues :
          (StepTaken /\ Applies("Add", v))
             => /\ acc' = (acc + v) % 65536
                /\ carry' = (acc + v >= 65536)
                /\ overflow' = (acc + v >= 65536)
                /\ zero' = (acc' = 0)
                /\ sign' = (acc' >= 32768)
                /\ v = 1 => /\ carry' = (acc = 65535)
                            /\ overflow' = (acc = 65535)
                            /\ zero' = (acc = 65535)
                            /\ (acc = 65535) => acc' = 0]_vars

\* ADD #1 has wrapped: ACC is 0 with carry, overflow and zero set
C12_Witness ==
    /\ cir = <<Op("Add"), Immediate(1)>>
    /\ acc = 0 /\ carry /\ overflow /\ zero /\ ~sign

\* C13: a step executing CMP with operand value v leaves ACC unchanged and
\* sets zero to (ACC = v), carry and overflow to (ACC < v) and sign to bit
\* 15 of (ACC - v) mod 2^16, the flags SUB would set
C13_CmpFlags ==
    [][\A v \in ArithValues :
          (StepTaken /\ Applies("Cmp", v))
             => /\ acc' = acc
                /\ zero' = (acc = v)
                /\ carry' = (acc < v)
                /\ overflow' = (acc < v)
                /\ sign' = (((acc - v + 65536) % 65536) >= 32768)
                /\ <<carry', zero', overflow', sign'>> =
                       <<Apply(Ctx, "Sub", v).carry, Apply(Ctx, "Sub", v).zero,
                         Apply(Ctx, "Sub", v).overflow, Apply(Ctx, "Sub", v).sign>>]_vars

\* CMP #6 has been executed with ACC = 5: a borrow, not zero
C13_Witness ==
    /\ cir = <<Op("Cmp"), Immediate(6)>>
    /\ acc = 5 /\ carry /\ overflow /\ ~zero /\ sign

(***************************************************************************)
(* Running short programs: END alone, LDM #72 / OUT / END, a lone data     *)
(* word and a compare followed by empty memory, loaded at 0 and run with   *)
(* every button of the top bar                                             *)
(***************************************************************************)
SrcEnd == Text(<<MnemonicText["End"]>>)

SrcHello ==
    Text(<<Line("Ldm", Num(72)), MnemonicText["Out"], MnemonicText["End"]>>)

SrcData == Text(<<Num(9)>>)

SrcCmp == Text(<<Line("Cmp", Num(1))>>)

RunSources == {SrcEnd, SrcHello, SrcData, SrcCmp}

\* a click on "Assemble and load" in SpecRun
RunClick == ClickAssembleAndLoad(RunSources, {0})

NextRun ==
    \/ TimedStep
    \/ NoTimedStep
    \/ NoClick
    \/ ClickExecute
    \/ ClickTerminate
    \/ ClickStep
    \/ ClickReset
    \/ RunClick

SpecRun == Init /\ [][NextRun]_vars

\* registers, flags, output and memory are the ones Reset leaves
AtReset ==
    /\ pc = 0 /\ acc = 0 /\ ix = 0
    /\ ~carry /\ ~zero /\ ~overflow /\ ~sign
    /\ output = <<>>
    /\ memory = [a \in 0..(MemSize - 1) |-> Value(0)]

\* registers, flags and output are the ones Reset leaves and memory holds
\* END in cell 0 and nothing else
EndLoadedAtReset ==
    /\ pc = 0 /\ acc = 0 /\ ix = 0
    /\ ~carry /\ ~zero /\ ~overflow /\ ~sign
    /\ output = <<>>
    /\ memory = [a \in 0..(MemSize - 1) |->
                    IF a = 0 THEN Instruction(Op("End"), Empty) ELSE Value(0)]

\* C14: the text END assembles to the one instruction END; loaded at 0 on
\* the reset machine it fills cell 0 only, and one step from there reports
\* ExecutionTerminated at address 0, leaves the state Stopped and ACC, IX
\* and the four flags as they were
C14_EndStopsAtOnce ==
    [][/\ (RunClick /\ AtReset /\ source_code' = SrcEnd)
              => /\ assemble(source_code').val = <<<<Op("End"), Empty>>>>
                 /\ EndLoadedAtReset'
       /\ (StepTaken /\ EndLoadedAtReset)
              => /\ execution_info' =
                        [kind |-> "ExecutionTerminated", ins_address |-> 0]
                 /\ execution_state' = "Stopped"
                 /\ UNCHANGED <<acc, ix, carry, zero, overflow, sign>>]_vars

\* END at cell 0 has been fetched and executed on the reset machine
C14_Witness ==
    /\ source_code = SrcEnd
    /\ memory[0] = Instruction(Op("End"), Empty)
    /\ pc = 1 /\ acc = 0 /\ ix = 0
    /\ ~carry /\ ~zero /\ ~overflow /\ ~sign
    /\ mar = 0 /\ mdr = Instruction(Op("End"), Empty)
    /\ execution_info = [kind |-> "ExecutionTerminated", ins_address |-> 0]
    /\ execution_state = "Stopped"

(***************************************************************************)
(* A run left alone: the user loads a program on the fresh machine and     *)
(* clicks Execute; frames keep coming (update asks for a repaint while     *)
(* Executing) and the wall clock makes the step due again and again        *)
(***************************************************************************)
NextHello ==
    \/ TimedStep
    \/ NoTimedStep
    \/ NoClick
    \/ ClickExecute
    \/ FreshAssembleAndLoad(RunSources, {0})

SpecHello == Init /\ [][NextHello]_vars

SpecHelloFair == SpecHello /\ SF_vars(TimedStep) /\ WF_vars(NoClick)

\* LDM #72 / OUT / END sits in cells 0..2 of the reset machine
HelloLoadedAtReset ==
    /\ pc = 0 /\ acc = 0 /\ ix = 0
    /\ ~carry /\ ~zero /\ ~overflow /\ ~sign
    /\ output = <<>>
    /\ memory = [a \in 0..(MemSize - 1) |->
                    CASE a = 0 -> Instruction(Op("Ldm"), Immediate(72))
                      [] a = 1 -> Instruction(Op("Out"), Empty)
                      [] a = 2 -> Instruction(Op("End"), Empty)
                      [] OTHER -> Value(0)]

\* C15: LDM #72 / OUT / END loaded at 0 on the reset machine and set
\* Executing eventually is Stopped with exactly "H" in the output and
\* ExecutionTerminated at address 2 reported
C15_HelloTerminates ==
    (HelloLoadedAtReset /\ execution_state = "Executing")
        ~> (/\ execution_state = "Stopped"
            /\ output = <<72>>
            /\ execution_info =
                   [kind |-> "ExecutionTerminated", ins_address |-> 2])

\* the run of LDM #72 / OUT / END has ended
C15_Witness ==
    /\ source_code = SrcHello
    /\ memory[1] = Instruction(Op("Out"), Empty)
    /\ execution_state = "Stopped"
    /\ cir = <<Op("End"), Empty>> /\ pc = 3 /\ acc = 72
    /\ output = <<72>>
    /\ execution_info = [kind |-> "ExecutionTerminated", ins_address |-> 2]

\* C17: a step that fetches a Value cell at PC executes nothing: it reports
\* ExecutionTerminated{pc} for Value(0) and ExecutionAbortedValueMet{pc, v}
\* for Value(v) with v /= 0, the state becomes Stopped, PC, CIR, ACC, IX, the
\* flags, memory and output stay as they were, MAR and MDR record the fetch
C17_FetchValue ==
    [][(StepTaken /\ pc \in 0..(MemSize - 1) /\ memory[pc].tag = "Value")
          => /\ execution_info' =
                    IF memory[pc].value = 0
                    THEN [kind |-> "ExecutionTerminated", ins_address |-> pc]
                    ELSE [kind |-> "ExecutionAbortedValueMet",
                          ins_address |-> pc, value |-> memory[pc].value]
             /\ execution_state' = "Stopped"
             /\ UNCHANGED Progress
             /\ mar' = pc /\ mdr' = memory[pc]]_vars

\* the data word 9 in cell 0 has been fetched: PC and CIR are as at reset
C17_Witness ==
    /\ execution_info = [kind |-> "ExecutionAbortedValueMet",
                         ins_address |-> 0, value |-> 9]
    /\ execution_state = "Stopped"
    /\ pc = 0 /\ mar = 0 /\ mdr = Value(9)
    /\ cir = <<Op("End"), Empty>>

\* C18: Execute is offered only in Stopped and moves Stopped to Executing;
\* Terminate is offered in every other state and moves it to Stopped,
\* leaving PC, CIR, ACC, IX, the flags, memory and output as they were, a
\* pending input wait included
C18_RunAndStop ==
    [][/\ ClickExecute
              => /\ execution_state = "Stopped"
                 /\ execution_state' = "Executing"
       /\ ClickTerminate
              => /\ execution_state \in {"Executing"} \cup Awaiting
                 /\ execution_state' = "Stopped"
                 /\ UNCHANGED Progress
       /\ (at = "widgets" /\ ~panicked)
              => /\ (ENABLED ClickExecute) <=> execution_state = "Stopped"
                 /\ (ENABLED ClickTerminate) <=> execution_state /= "Stopped"]_vars

\* Terminate has abandoned the input wait of an IN that nothing answered
C18_Witness ==
    /\ at = "clock"
    /\ execution_state = "Stopped"
    /\ cir = <<Op("In"), Empty>>
    /\ input = <<>> /\ last_input = -1
    /\ execution_info = None

(***************************************************************************)
(* Long runs: programs that loop, run past the step at which the engine    *)
(* warns                                                                   *)
(***************************************************************************)
MaxLongSteps == 1002

\* update, lines 1104-1123, the step being due, in a run of up to
\* MaxLongSteps counted steps
LongTimedStep ==
    /\ at = "clock" /\ ~panicked
    /\ execution_state = "Executing"
    /\ TimedStepOf(Ctx).ins_executed <= MaxLongSteps
    /\ Len(TimedStepOf(Ctx).output) <= MaxOutput
    /\ Commit(ResetCounterIfStopped(TimedStepOf(Ctx)))
    /\ at' = "widgets"
    /\ last_input' = -1
    /\ loads' = loads

\* the "Step" button in such a run
LongClickStep ==
    /\ at = "widgets" /\ ~panicked
    /\ Len(step(Ctx).output) <= MaxOutput
    /\ Commit(step(Ctx))
    /\ at' = "clock"
    /\ last_input' = -1
    /\ loads' = loads

\* XOR #1 / JMP 0: ACC toggles for ever
SrcLoop == Text(<<Line("Xor", Num(1)), Line("Jmp", DecText(0))>>)

\* ACC counts to 333 in 1000 steps, and END is the step after them
SrcCount ==
    Text(<<Line("Ldm", Num(0)), Line("Inc", <<"A", "C", "C">>),
           Line("Cmp", Num(333)), Line("Jpn", DecText(1)),
           MnemonicText["End"]>>)

CountSources == {SrcLoop, SrcCount}

\* a run left alone, as in SpecHello
NextCount ==
    \/ LongTimedStep
    \/ NoTimedStep
    \/ NoClick
    \/ ClickExecute
    \/ FreshAssembleAndLoad(CountSources, {0})

SpecCount == Init /\ [][NextCount]_vars

\* a step of the engine in a long run
LongStepTaken == LongTimedStep \/ LongClickStep

\* the context a step would leave had the counter been below the threshold
Below == step([Ctx EXCEPT !.ins_executed = 0])

\* C19: a step taken with the counter at 1000 or more reports TooManySteps
\* and is otherwise the step it would have been below the threshold: the
\* same execution state, registers, flags, memory and output
C19_WarningIsAdvisory ==
    [][(LongStepTaken /\ ins_executed >= 1000)
          => /\ execution_info' = [kind |-> "TooManySteps",
                                   steps |-> ins_executed]
             /\ execution_state' = Below.execution_state
             /\ <<pc', cir', acc', ix', carry', zero', overflow', sign',
                  memory', output'>>
                    = <<Below.pc, Below.cir, Below.acc, Below.ix, Below.carry,
                        Below.zero, Below.overflow, Below.sign, Below.memory,
                        Below.output>>]_vars

(***************************************************************************)
(* Long runs with every button: JMP 0 run past the warning, stopped in     *)
(* each way the engine can be stopped, and run again                       *)
(***************************************************************************)
SrcJmp0 == Text(<<Line("Jmp", DecText(0))>>)

SrcJmpOut == Text(<<Line("Jmp", DecText(256))>>)

SrcIn == Text(<<MnemonicText["In"]>>)

LongSources == {SrcJmp0, SrcEnd, SrcJmpOut, SrcIn}

\* a click on "Assemble and load" in SpecLong
LongClick == FreshAssembleAndLoad(LongSources, {0})

NextLong ==
    \/ LongTimedStep
    \/ NoTimedStep
    \/ NoClick
    \/ ClickExecute
    \/ ClickTerminate
    \/ LongClickStep
    \/ ClickReset
    \/ LongClick
    \/ TypeInput
    \/ ClickSend

SpecLong == Init /\ [][NextLong]_vars

OwnEvent == step([Ctx EXCEPT !.execution_info = None,
                             !.ins_executed = 0]).execution_info

\* the events a step taken now produces
Produced ==
    (IF ins_executed >= 1000
     THEN {[kind |-> "TooManySteps", steps |-> ins_executed]} ELSE {})
    \cup (IF OwnEvent /= None THEN {OwnEvent} ELSE {})

\* C21: every event a step produces is what the host finds reported after
\* the step, also when the step produces TooManySteps together with the
\* event of a stop
C21_NoInfoDropped ==
    [][LongStepTaken => \A e \in Produced : execution_info' = e]_vars

(***************************************************************************)
(* The operand parser: a label alone on the first line, ADD with an        *)
(* operand token on the second; the tokens try every rule of the parser,   *)
(* its limits, and the names the labels have                               *)
(***************************************************************************)
ParserTokens ==
    {<<"I", "X">>, <<"A", "C", "C">>, <<"i", "x">>, <<"A", "c", "c">>,
     <<"&", "F", "F">>, <<"&", "f", "f">>, <<"&", "F", "F", "F", "F">>,
     <<"&", "1", "0", "0", "0", "0">>, <<"&", "G">>, <<"&">>,
     <<"B", "1", "0", "1">>, <<"B">>, <<"B", "2">>, <<"B", "1">>,
     <<"B", "X">>, <<"b", "1">>, <<"#", "5">>,
     <<"#", "6", "5", "5", "3", "5">>, <<"#", "6", "5", "5", "3", "6">>,
     <<"#">>, <<"#", "-", "1">>, <<"#", "&", "F">>, <<"#", "+", "5">>,
     <<"5">>, <<"6", "5", "5", "3", "5">>, <<"6", "5", "5", "3", "6">>,
     <<"+", "5">>, <<"-", "5">>, <<"L">>, <<"Q">>}

ParserLabels ==
    {<<"B", "1">>, <<"B", "X">>, <<"L">>, <<"I", "X">>,
     <<"6", "5", "5", "3", "6">>}

\* "<label>:" on line 1, "ADD <token>" on line 2
ParserSource(lbl, t) == Text(<<lbl \o <<":">>, Line("Add", t)>>)

ParserSources == {ParserSource(lbl, t) : lbl \in ParserLabels, t \in ParserTokens}

MaxParserLoads == 1

\* a click on "Assemble and load" in SpecParser
ParserClick == CountedAssembleAndLoad(ParserSources, {0}, MaxParserLoads)

NextParser ==
    \/ NoTimedStep
    \/ NoClick
    \/ ClickReset
    \/ ParserClick

SpecParser == Init /\ [][NextParser]_vars

RECURSIVE C22_Power(_, _)
C22_Power(radix, n) == IF n = 0 THEN 1 ELSE radix * C22_Power(radix, n - 1)

RECURSIVE C22_Sum(_, _, _)
\* the value of the digits d[i..] by their places
C22_Sum(d, radix, i) ==
    IF i > Len(d) THEN 0
    ELSE to_digit(d[i], radix) * C22_Power(radix, Len(d) - i)
             + C22_Sum(d, radix, i + 1)

\* the digits of a number text: Rust's integer parse allows one leading "+"
C22_Digits(s) == IF s /= <<>> /\ s[1] = "+" THEN Tail(s) ELSE s

\* the text s is a number in the radix that fits in 16 bits
C22_Parses(s, radix) ==
    /\ C22_Digits(s) /= <<>>
    /\ \A i \in 1..Len(C22_Digits(s)) : to_digit(C22_Digits(s)[i], radix) >= 0
    /\ C22_Sum(C22_Digits(s), radix, 1) < 65536

C22_Number(s, radix) == C22_Sum(C22_Digits(s), radix, 1)

\* the rules of claim C22 in their order: whether rule n applies to the
\* token, and what it then gives
C22_Applies(n, t, table) ==
    CASE n = 1 -> t = <<"I", "X">> \/ t = <<"A", "C", "C">>
      [] n = 2 -> t[1] = "&"
      [] n = 3 -> t[1] = "B"
      [] n = 4 -> t[1] = "#"
      [] n = 5 -> C22_Parses(t, 10)
      [] n = 6 -> t \in DOMAIN table
      [] n = 7 -> TRUE

C22_Prefixed(t, radix) ==
    IF C22_Parses(Tail(t), radix)
    THEN Ok(Immediate(C22_Number(Tail(t), radix))) ELSE Err("()")

C22_Gives(n, t, table) ==
    CASE n = 1 -> Ok(Register(IF t = <<"I", "X">> THEN "Ix" ELSE "Acc"))
      [] n = 2 -> C22_Prefixed(t, 16)
      [] n = 3 -> C22_Prefixed(t, 2)
      [] n = 4 -> C22_Prefixed(t, 10)
      [] n = 5 -> Ok(Address(C22_Number(t, 10)))
      [] n = 6 -> Ok(Address(table[t]))
      [] n = 7 -> Err("()")

\* the result of the first rule that applies
C22_Resolve(t, table) ==
    C22_Gives(CHOOSE n \in 1..7 :
                  /\ C22_Applies(n, t, table)
                  /\ \A m \in 1..(n - 1) : ~C22_Applies(m, t, table),
              t, table)

\* what assemble returns for "ADD <t>" on line 2 when the parser gives r
C22_Assembled(t, r) ==
    IF ~r.ok THEN Err([kind |-> "MalformedOperand", line_index |-> 2,
                       operand |-> t])
    ELSE IF r.val.kind = "Register"
    THEN Err([kind |-> "IncorrectOperand", line_index |-> 2,
              opcode |-> Op("Add"), operand_given |-> r.val,
              operand_type_expected |-> "Address/Number"])
    ELSE Ok(<<<<Op("Add"), r.val>>>>)

\* C22: the operand parser gives a token the result of the first rule that
\* applies, in the order register name, prefix &, prefix B, prefix #,
\* decimal number, label; a prefixed token whose rest is no number of 16 bits
\* fails and is not looked up as a label; and assemble carries that result
C22_ParserOrder ==
    \A lbl \in ParserLabels, t \in ParserTokens :
        source_code = ParserSource(lbl, t)
            => /\ str_to_operand(t, SymbolTableOf(source_code))
                      = C22_Resolve(t, [k \in {lbl} |-> 0])
               /\ assemble(source_code)
                      = C22_Assembled(t, C22_Resolve(t, [k \in {lbl} |-> 0]))

\* "ADD BX" under the label BX has been refused: the token was tried as a
\* binary number and not looked up
C22_Witness ==
    /\ loads > 0
    /\ source_code = ParserSource(<<"B", "X">>, <<"B", "X">>)
    /\ <<"B", "X">> \in DOMAIN SymbolTableOf(source_code)
    /\ assembler_error = [kind |-> "MalformedOperand", line_index |-> 2,
                          operand |-> <<"B", "X">>]

(***************************************************************************)
(* The opcode resolver: one line "L: <token>", the token being each        *)
(* mnemonic, mnemonics in another case or with a letter more or less, data *)
(* words in the three notations, and things that are operands only         *)
(***************************************************************************)
ResolverTokens ==
    {MnemonicText[m] : m \in Mnemonics}
    \cup
    {<<"l", "d", "m">>, <<"E", "n", "d">>, <<"i", "n">>,
     <<"L", "D", "M", "X">>, <<"L", "D">>, <<"N", "O", "P">>, <<"#", "5">>,
     <<"#", "0">>, <<"#", "6", "5", "5", "3", "5">>,
     <<"#", "6", "5", "5", "3", "6">>, <<"#", "+", "5">>, <<"#">>,
     <<"&", "F">>, <<"&", "f", "f">>, <<"&", "G">>, <<"B", "1", "1">>,
     <<"B">>, <<"B", "2">>, <<"5">>, <<"6", "5", "5", "3", "5">>,
     <<"I", "X">>, <<"A", "C", "C">>, <<"L">>, <<"Q">>}

ResolverSources == {Text(<<AsmLine(t, <<>>)>>) : t \in ResolverTokens}

MaxResolverLoads == 1

\* a click on "Assemble and load" in SpecResolver
ResolverClick ==
    CountedAssembleAndLoad(ResolverSources, {0}, MaxResolverLoads)

NextResolver ==
    \/ NoTimedStep
    \/ NoClick
    \/ ClickReset
    \/ ResolverClick

SpecResolver == Init /\ [][NextResolver]_vars

\* the opcode claim C23 gives a token: the mnemonic it equals, else the
\* data word the operand rules make of it under an empty symbol table
C23_Resolve(t) ==
    IF \E m \in Mnemonics : MnemonicText[m] = t
    THEN Ok(Op(CHOOSE m \in Mnemonics : MnemonicText[m] = t))
    ELSE IF /\ C22_Resolve(t, EmptyTable).ok
            /\ C22_Resolve(t, EmptyTable).val.kind = "Immediate"
    THEN Ok(Data(C22_Resolve(t, EmptyTable).val.value))
    ELSE Err("()")

\* what assemble returns for the line "L: <t>" when the resolver gives r
C23_Assembled(t, r) ==
    IF ~r.ok THEN Err([kind |-> "UnknownOpcode", line_index |-> 1,
                       opcode |-> t])
    ELSE IF r.val.name \in {"In", "Out", "End"} THEN Ok(<<<<r.val, Empty>>>>)
    ELSE IF r.val.name = "Data"
    THEN Ok(<<<<r.val, Immediate(r.val.value)>>>>)
    ELSE Err([kind |-> "MissingOperand", line_index |-> 1, opcode |-> r.val])

\* the resolver gave a data word
C23_IsData(r) == r.ok /\ r.val.name = "Data"

\* the operand parser gave a number
C23_IsImmediate(r) == r.ok /\ r.val.kind = "Immediate"

\* C23: a token equal to a mnemonic resolves to its opcode; any other token
\* resolves to Data(v) exactly when the operand parser with an empty symbol
\* table makes Immediate(v) of it, and is an unknown opcode otherwise; the
\* assembler reports the line accordingly
C23_OpcodeResolver ==
    \A t \in ResolverTokens :
        source_code = Text(<<AsmLine(t, <<>>)>>)
            => /\ try_from(t) = C23_Resolve(t)
               /\ C23_IsData(try_from(t))
                      <=> /\ \A m \in Mnemonics : MnemonicText[m] /= t
                          /\ C23_IsImmediate(str_to_operand(t, EmptyTable))
               /\ C23_IsData(try_from(t))
                      => str_to_operand(t, EmptyTable)
                             = Ok(Immediate(try_from(t).val.value))
               /\ assemble(source_code) = C23_Assembled(t, C23_Resolve(t))

\* the bare number 5 in opcode position has been refused
C23_Witness ==
    /\ loads > 0
    /\ source_code = Text(<<AsmLine(<<"5">>, <<>>)>>)
    /\ assembler_error = [kind |-> "UnknownOpcode", line_index |-> 1,
                          opcode |-> <<"5">>]

(***************************************************************************)
(* Labels: every program of three lines, each line a label alone, a label  *)
(* with a comment, a labelled or plain jump to a label, or blank; labels   *)
(* defined twice, referred to before their line, or not defined at all     *)
(***************************************************************************)
\* a line: the label it starts with ("" for none) and what follows, a
\* jump to "A" or "C", a comment, or nothing
LabelLines ==
    {[label |-> "A", body |-> "none"], [label |-> "A", body |-> "comment"],
     [label |-> "A", body |-> "C"],    [label |-> "C", body |-> "A"],
     [label |-> "",  body |-> "A"],    [label |-> "",  body |-> "none"]}

ProgramLength == 3

LabelPrograms == [1..ProgramLength -> LabelLines]

\* the text of a line
LabelLineText(d) ==
    (IF d.label = "" THEN <<>> ELSE <<d.label, ":">>)
    \o (CASE d.body = "none" -> <<>>
          [] d.body = "comment" -> <<" ", "/", "/", " ", "c">>
          [] OTHER -> (IF d.label = "" THEN <<>> ELSE <<" ">>)
                          \o Line("Jmp", <<d.body>>))

\* the source text of a program
LabelText(prog) == Text([i \in 1..ProgramLength |-> LabelLineText(prog[i])])

LabelSources == {LabelText(prog) : prog \in LabelPrograms}

LabelLocations == {0, 3}

\* a click on "Assemble and load" in SpecLabels
LabelClick == FirstAssembleAndLoad(LabelSources, LabelLocations)

NextLabels ==
    \/ NoTimedStep
    \/ NoClick
    \/ LabelClick

SpecLabels == Init /\ [][NextLabels]_vars

\* line i of the program emits an instruction
C24_Emits(prog, i) == prog[i].body \in {"A", "C"}

\* the number of instructions the lines before line i emit
C24_SlotsBefore(prog, i) ==
    Cardinality({j \in 1..(i - 1) : C24_Emits(prog, j)})

\* the labels the program defines
C24_Defined(prog) ==
    {prog[i].label : i \in 1..ProgramLength} \ {""}

\* the binding of a defined label: the slots before the last line with it
C24_Binding(prog, l) ==
    C24_SlotsBefore(prog, CHOOSE i \in 1..ProgramLength :
                              /\ prog[i].label = l
                              /\ \A j \in (i + 1)..ProgramLength :
                                     prog[j].label /= l)

\* the lines that refer to a label no line defines
C24_Dangling(prog) ==
    {i \in 1..ProgramLength :
        C24_Emits(prog, i) /\ prog[i].body \notin C24_Defined(prog)}

\* the line that emits instruction k
C24_LineOf(prog, k) ==
    CHOOSE i \in 1..ProgramLength :
        C24_Emits(prog, i) /\ C24_SlotsBefore(prog, i) = k - 1

\* what assemble returns by claim C24: every reference is the binding of
\* its label, and the first reference to an undefined label is refused
C24_Assembled(prog) ==
    IF C24_Dangling(prog) /= {}
    THEN Err([kind |-> "MalformedOperand",
              line_index |-> CHOOSE i \in C24_Dangling(prog) :
                                 \A j \in C24_Dangling(prog) : i <= j,
              operand |-> <<prog[CHOOSE i \in C24_Dangling(prog) :
                                     \A j \in C24_Dangling(prog) : i <= j].body>>])
    ELSE Ok([k \in 1..C24_SlotsBefore(prog, ProgramLength + 1) |->
                <<Op("Jmp"),
                  Address(C24_Binding(prog, prog[C24_LineOf(prog, k)].body))>>])

\* C24: the first pass binds every label to the number of instructions the
\* lines before its last definition emit, whatever the load location, and
\* every reference, before or after that line, assembles to that binding
C24_LabelBinding ==
    \A prog \in LabelPrograms :
        source_code = LabelText(prog)
            => /\ SymbolTableOf(source_code)
                      = [t \in {<<l>> : l \in C24_Defined(prog)} |->
                            C24_Binding(prog, t[1])]
               /\ assemble(source_code) = C24_Assembled(prog)

\* "A:" / "JMP A" / "A: // c" loaded at 3: A, defined twice, is bound by
\* its last line to slot 1, and the reference before it uses that
C24_Witness ==
    /\ source_code = LabelText(<<[label |-> "A", body |-> "none"],
                                 [label |-> "",  body |-> "A"],
                                 [label |-> "A", body |-> "comment"]>>)
    /\ program_load_location = 3
    /\ SymbolTableOf(source_code)[<<"A">>] = 1
    /\ memory[3] = Instruction(Op("Jmp"), Address(4))

(***************************************************************************)
(* The number of tokens of a line: every opcode alone on its line, and     *)
(* lines of three and four tokens, with and without a label and a comment  *)
(***************************************************************************)
\* the first tokens of the lines: the mnemonics, the three notations of a
\* data word, an unknown name and a bare number
ArityFirst ==
    {MnemonicText[m] : m \in Mnemonics}
    \cup {<<"#", "5">>, <<"&", "F">>, <<"B", "1", "1">>, <<"N", "O", "P">>,
          <<"5">>}

\* the first tokens of the lines that are too long
ArityLong ==
    {MnemonicText["Ldm"], MnemonicText["In"], MnemonicText["Add"],
     <<"#", "5">>, <<"N", "O", "P">>}

\* the tokens of a line
ArityTokens ==
    {<<f>> : f \in ArityFirst}
    \cup {<<f, <<"#", "1">>, <<"#", "2">>>> : f \in ArityLong}
    \cup {<<f, <<"#", "1">>, <<"2">>, <<"I", "X">>>> : f \in ArityLong}

\* a line: its tokens, whether a label precedes and a comment follows them
ArityLines ==
    [tokens : ArityTokens, label : BOOLEAN, comment : BOOLEAN]

RECURSIVE Joined(_)
\* the tokens separated by one blank
Joined(ts) ==
    IF Len(ts) = 1 THEN ts[1] ELSE ts[1] \o <<" ">> \o Joined(Tail(ts))

\* the text of a line
ArityText(d) ==
    Text(<<(IF d.label THEN <<"L", ":", " ">> ELSE <<>>)
           \o Joined(d.tokens)
           \o (IF d.comment THEN <<" ", "/", "/", "x", " ", "y">> ELSE <<>>)>>)

AritySources == {ArityText(d) : d \in ArityLines}

\* a click on "Assemble and load" in SpecArity
ArityClick == FirstAssembleAndLoad(AritySources, {0})

NextArity ==
    \/ NoTimedStep
    \/ NoClick
    \/ ArityClick

SpecArity == Init /\ [][NextArity]_vars

\* what claim C25 makes of a line with these tokens; a line of two tokens
\* is not its subject
C25_Expected(ts) ==
    IF Len(ts) >= 3
    THEN Err([kind |-> "TooManyOperands", line_index |-> 1,
              operands_found |-> Len(ts) - 1])
    ELSE C23_Assembled(ts[1], C23_Resolve(ts[1]))

\* C25: a line of three or more tokens after its label and before its
\* comment fails with TooManyOperands{tokens - 1}, whatever its first
\* token; a line of one token gives (IN|OUT|END, Empty) or (Data(v),
\* Immediate(v)) and fails with MissingOperand for every other opcode
C25_OperandCount ==
    \A d \in ArityLines :
        source_code = ArityText(d)
            => /\ assemble(source_code) = C25_Expected(d.tokens)
               /\ Len(d.tokens) >= 3
                      => /\ ~assemble(source_code).ok
                         /\ assemble(source_code).val.kind = "TooManyOperands"
                         /\ assemble(source_code).val.operands_found
                                = Len(d.tokens) - 1
               /\ (Len(d.tokens) = 1 /\ C23_Resolve(d.tokens[1]).ok)
                      => IF C23_Resolve(d.tokens[1]).val.name
                                \in {"In", "Out", "End", "Data"}
                         THEN assemble(source_code).ok
                         ELSE /\ ~assemble(source_code).ok
                              /\ assemble(source_code).val.kind
                                     = "MissingOperand"

\* "L: NOP #1 2 IX //x y" has been refused for its three operands, before
\* its opcode was looked at
C25_Witness ==
    /\ source_code = ArityText([tokens |-> <<<<"N", "O", "P">>, <<"#", "1">>,
                                             <<"2">>, <<"I", "X">>>>,
                                label |-> TRUE, comment |-> TRUE])
    /\ assembler_error = [kind |-> "TooManyOperands", line_index |-> 1,
                          operands_found |-> 3]

(***************************************************************************)
(* One operand token: the lines "L: <opcode> <operand>" of SpecAsm         *)
(***************************************************************************)
\* the name claim C26 reports for the kinds an opcode requires
C26_KindName(kinds) ==
    CASE kinds = {"Immediate"} -> "Number"
      [] kinds = {"Address"} -> "Address"
      [] kinds = {"Register"} -> "Register"
      [] kinds = {"Address", "Immediate"} -> "Address/Number"

\* what claim C26 makes of the line "L: <o> <d>" on line 1, oc being the
\* opcode of o and od what the operand rules make of d
C26_Expected(oc, d, od) ==
    IF ~od.ok
    THEN Err([kind |-> "MalformedOperand", line_index |-> 1, operand |-> d])
    ELSE IF oc.name \in {"In", "Out", "End", "Data"}
    THEN Err([kind |-> "RedundantOperand", line_index |-> 1, opcode |-> oc,
              operand |-> od.val])
    ELSE IF od.val.kind \in C9_Allowed(oc.name)
    THEN Ok(<<<<oc, od.val>>>>)
    ELSE Err([kind |-> "IncorrectOperand", line_index |-> 1, opcode |-> oc,
              operand_given |-> od.val,
              operand_type_expected |-> C26_KindName(C9_Allowed(oc.name))])

\* C26: a line with an opcode and one operand token fails with
\* MalformedOperand when the operand parser rejects the token; otherwise
\* with RedundantOperand for IN, OUT, END and a data word, with
\* IncorrectOperand carrying opcode, operand and expected kind when the
\* kind is not the one the opcode requires, and else is assembled
C26_OneOperand ==
    \A o \in OpcodeTokens, d \in OperandTokens \ {<<>>} :
        (source_code = Text(<<AsmLine(o, d)>>) /\ C23_Resolve(o).ok)
            => assemble(source_code)
                   = C26_Expected(C23_Resolve(o).val, d,
                                  C22_Resolve(d, [k \in {<<"L">>} |-> 0]))

\* "L: OUT IX" has been refused: the operand is a register, and OUT takes
\* none
C26_Witness ==
    /\ loads > 0
    /\ source_code = Text(<<AsmLine(MnemonicText["Out"], <<"I", "X">>)>>)
    /\ assembler_error = [kind |-> "RedundantOperand", line_index |-> 1,
                          opcode |-> Op("Out"), operand |-> Register("Ix")]

(***************************************************************************)
(* The first error: every program of three lines, each line blank, a       *)
(* comment, a label alone, a good instruction, or a line with one or two   *)
(* things wrong with it                                                    *)
(***************************************************************************)
\* the text of a line with what the assembler is to make of it: nothing
\* ("skip"), the instruction ins ("ok"), or the error err without its line
\* number ("err"); where two checks would fail the first of the order
\* TooManyOperands, UnknownOpcode, MissingOperand or MalformedOperand,
\* IncorrectOperand or RedundantOperand is the one expected
ErrorLines ==
    {[text |-> <<>>, is |-> "skip"],
     [text |-> <<"/", "/", " ", "c">>, is |-> "skip"],
     [text |-> <<"L", ":">>, is |-> "skip"],
     [text |-> MnemonicText["Out"], is |-> "ok", ins |-> <<Op("Out"), Empty>>],
     [text |-> <<"N", "O", "P", " ", "#", "1", " ", "#", "2">>, is |-> "err",
      err |-> [kind |-> "TooManyOperands", operands_found |-> 2]],
     [text |-> <<"N", "O", "P", " ", "Q">>, is |-> "err",
      err |-> [kind |-> "UnknownOpcode", opcode |-> <<"N", "O", "P">>]],
     [text |-> MnemonicText["Ldm"], is |-> "err",
      err |-> [kind |-> "MissingOperand", opcode |-> Op("Ldm")]],
     [text |-> Line("In", <<"Q">>), is |-> "err",
      err |-> [kind |-> "MalformedOperand", operand |-> <<"Q">>]],
     [text |-> Line("Ldm", <<"1">>), is |-> "err",
      err |-> [kind |-> "IncorrectOperand", opcode |-> Op("Ldm"),
               operand_given |-> Address(1),
               operand_type_expected |-> "Number"]],
     [text |-> Line("In", <<"#", "1">>), is |-> "err",
      err |-> [kind |-> "RedundantOperand", opcode |-> Op("In"),
               operand |-> Immediate(1)]]}

ErrorPrograms == ErrorLines \X ErrorLines \X ErrorLines

ErrorText(prog) == Text(<<prog[1].text, prog[2].text, prog[3].text>>)

ErrorSources == {ErrorText(prog) : prog \in ErrorPrograms}

\* a click on "Assemble and load" in SpecErrors
ErrorClick == FirstAssembleAndLoad(ErrorSources, {0})

NextErrors ==
    \/ NoTimedStep
    \/ NoClick
    \/ ErrorClick

SpecErrors == Init /\ [][NextErrors]_vars

\* the error e with the line number n
C27_OnLine(e, n) ==
    [f \in DOMAIN e \cup {"line_index"} |->
        IF f = "line_index" THEN n ELSE e[f]]

\* the lines of the program that are in error
C27_Bad(prog) == {n \in 1..3 : prog[n].is = "err"}

RECURSIVE C27_Good(_, _)
\* the instructions of the lines n.. of a program without errors
C27_Good(prog, n) ==
    IF n > 3 THEN <<>>
    ELSE (IF prog[n].is = "ok" THEN <<prog[n].ins>> ELSE <<>>)
             \o C27_Good(prog, n + 1)

\* the first line in error
C27_First(prog) == CHOOSE n \in C27_Bad(prog) : \A m \in C27_Bad(prog) : n <= m

\* C27: assemble returns the error of the first line in error, numbered by
\* its place among all lines of the source counted from 1, and nothing of
\* any later line; a line with two things wrong reports the earlier check
C27_FirstError ==
    \A prog \in ErrorPrograms :
        source_code = ErrorText(prog)
            => assemble(source_code)
                   = IF C27_Bad(prog) = {} THEN Ok(C27_Good(prog, 1))
                     ELSE Err(C27_OnLine(prog[C27_First(prog)].err,
                                         C27_First(prog)))

\* "L:" / "LDM 1" / "NOP #1 #2": the error reported is the one of line 2,
\* the label line counted, and not the one of line 3
C27_Witness ==
    /\ source_code = Text(<<<<"L", ":">>, Line("Ldm", <<"1">>),
                            <<"N", "O", "P", " ", "#", "1", " ", "#", "2">>>>)
    /\ assembler_error = [kind |-> "IncorrectOperand", line_index |-> 2,
                          opcode |-> Op("Ldm"), operand_given |-> Address(1),
                          operand_type_expected |-> "Number"]

(***************************************************************************)
(* Reset, under Spec                                                       *)
(***************************************************************************)
\* the engine as the claim describes it after a reset
C28_Cleared ==
    /\ execution_state = "Stopped"
    /\ pc = 0 /\ ix = 0 /\ acc = 0 /\ mar = 0
    /\ mdr.tag = "Value" /\ mdr.value = 0
    /\ ~carry /\ ~zero /\ ~overflow /\ ~sign
    /\ output = <<>>
    /\ DOMAIN memory = 0..255
    /\ \A a \in 0..255 : memory[a].tag = "Value" /\ memory[a].value = 0

\* C28: the Reset button, in whatever state it is pressed, leaves the state
\* Stopped, PC, IX, ACC and MAR 0, MDR Value(0), the four flags false, the
\* output empty and each of the 256 cells Value(0); a step taken in that
\* state reports ExecutionTerminated at address 0
C28_ResetClears ==
    [][/\ ClickReset => C28_Cleared'
       /\ (C28_Cleared /\ ClickStep)
              => execution_info' = [kind |-> "ExecutionTerminated",
                                    ins_address |-> 0]]_vars

\* IN / OUT was loaded at 0, then the memory was reset and a step taken
C28_Witness ==
    /\ source_code = SrcInOut /\ program_load_location = 0
    /\ assembler_error = None
    /\ C28_Cleared
    /\ execution_info = [kind |-> "ExecutionTerminated", ins_address |-> 0]

(***************************************************************************)
(* The IN step: a program that sets IX, ACC, the flags and the output and  *)
(* then meets IN twice, so that IN is stepped in every execution state     *)
(***************************************************************************)
SrcInIn ==
    Text(<<Line("Ldr", <<"#", "3">>), Line("Ldm", <<"#", "7">>),
           Line("Cmp", <<"#", "8">>), MnemonicText["Out"],
           MnemonicText["In"], MnemonicText["In"]>>)

\* at 250 the second IN is the last cell of memory
InputLocations == {0, 250}

\* a click on "Assemble and load" in SpecInput
InputClick == FreshAssembleAndLoad({SrcInIn}, InputLocations)

NextInput ==
    \/ TimedStep
    \/ NoTimedStep
    \/ NoClick
    \/ ClickExecute
    \/ ClickTerminate
    \/ ClickStep
    \/ ClickReset
    \/ InputClick
    \/ TypeInput
    \/ ClickSend

SpecInput == Init /\ [][NextInput]_vars

\* C29: a step that executes IN leaves ExecutingAwaitingInput when the
\* state was Executing and SteppingAwaitingInput when it was any other
\* state, PC one past the IN instruction, and ACC, IX, the flags, memory
\* and output as they were
C29_InSuspends ==
    [][(StepTaken /\ InAt(pc)) =>
          /\ execution_state' = IF execution_state = "Executing"
                                THEN "ExecutingAwaitingInput"
                                ELSE "SteppingAwaitingInput"
          /\ pc' = pc + 1
          /\ UNCHANGED <<acc, ix, carry, zero, overflow, sign, memory,
                         output>>]_vars

\* the run has just suspended on the first IN, with IX, ACC, the flags and
\* the output as the four instructions before it left them
C29_Witness ==
    /\ execution_state = "ExecutingAwaitingInput"
    /\ InAt(4) /\ pc = 5
    /\ cir = <<[name |-> "In", value |-> 0], Empty>>
    /\ ix = 3 /\ acc = 7 /\ sign /\ output = <<7>>
    /\ input = <<>> /\ last_input = -1

(***************************************************************************)
(* STO: ACC 7, the flags and IX set, then a store over an instruction, over *)
(* the STO itself, over value cells and outside memory                     *)
(***************************************************************************)
StoAddresses == {0, 3, 9, 255, 256}

StoSources ==
    {Text(<<Line("Ldm", <<"#", "7">>), Line("Cmp", <<"#", "8">>),
            Line("Ldr", <<"#", "3">>), Line("Sto", DecText(a))>>) :
        a \in StoAddresses}

\* loaded at 250 the addresses are 250, 253, 259, 505 and 506
StoLocations == {0, 250}

\* a click on "Assemble and load" in SpecSto
StoClick == FreshAssembleAndLoad(StoSources, StoLocations)

NextSto ==
    \/ TimedStep
    \/ NoTimedStep
    \/ NoClick
    \/ ClickExecute
    \/ ClickTerminate
    \/ ClickStep
    \/ ClickReset
    \/ StoClick

SpecSto == Init /\ [][NextSto]_vars

\* C30: a step on STO with an address up to 255 leaves Value(ACC) in that
\* cell, whatever it held, and every other cell, ACC, IX and the flags as
\* they were; with an address above 255 it leaves memory as it was, reports
\* AddressNotInMemory and stops
C30_Store ==
    [][(StepTaken /\ FetchesAddressed({"Sto"})) =>
          IF memory[pc].operand.value <= 255
          THEN /\ memory'[memory[pc].operand.value].tag = "Value"
               /\ memory'[memory[pc].operand.value].value = acc
               /\ \A b \in 0..255 :
                      b /= memory[pc].operand.value => memory'[b] = memory[b]
               /\ UNCHANGED <<acc, ix, carry, zero, overflow, sign>>
          ELSE /\ memory' = memory
               /\ execution_info' =
                      [kind |-> "AddressNotInMemory", ins_address |-> pc,
                       requested_address |-> memory[pc].operand.value]
               /\ execution_state' = "Stopped"]_vars

\* STO 0 has replaced the LDM #7 in cell 0 by Value(7)
C30_Witness ==
    /\ memory[3].tag = "Instruction" /\ memory[3].opcode.name = "Sto"
    /\ memory[3].operand.value = 0
    /\ pc = 4
    /\ memory[0].tag = "Value" /\ memory[0].value = 7
    /\ acc = 7 /\ ix = 3 /\ sign

(***************************************************************************)
(* Conditional jumps: JPE and JPN with the zero flag set and clear, to     *)
(* cell 0, to the cell after the jump and outside memory                   *)
(***************************************************************************)
BranchTargets == {0, 2, 256}

\* CMP #0 sets the zero flag (ACC is 0), CMP #1 clears it
BranchSources ==
    {Text(<<Line("Cmp", <<"#", z>>), Line(m, DecText(a))>>) :
        z \in {"0", "1"}, m \in {"Jpe", "Jpn"}, a \in BranchTargets}

\* a click on "Assemble and load" in SpecBranch
BranchClick == FreshAssembleAndLoad(BranchSources, {0})

NextBranch ==
    \/ TimedStep
    \/ NoTimedStep
    \/ NoClick
    \/ ClickExecute
    \/ ClickTerminate
    \/ ClickStep
    \/ ClickReset
    \/ BranchClick

SpecBranch == Init /\ [][NextBranch]_vars

\* the conditional jump at PC is taken
C31_Taken == (memory[pc].opcode.name = "Jpe") = zero

\* C31: a step on JPE (JPN) with the zero flag set (clear) leaves PC at the
\* operand address when that is at most 255, and otherwise reports
\* AddressNotInMemory and stops with PC not at the operand address; with
\* the zero flag clear (set) it leaves PC one past the jump and reports
\* nothing, whatever the operand address
C31_ConditionalJump ==
    [][(StepTaken /\ FetchesAddressed({"Jpe", "Jpn"})) =>
          IF ~C31_Taken
          THEN /\ pc' = pc + 1
               /\ execution_info' = execution_info
               /\ execution_state' = execution_state
          ELSE IF memory[pc].operand.value <= 255
          THEN pc' = memory[pc].operand.value
          ELSE /\ execution_info' =
                      [kind |-> "AddressNotInMemory", ins_address |-> pc,
                       requested_address |-> memory[pc].operand.value]
               /\ execution_state' = "Stopped"
               /\ pc' /= memory[pc].operand.value]_vars

\* JPE 256 fell through with the zero flag clear: no error, still running
C31_Witness ==
    /\ memory[1].tag = "Instruction" /\ memory[1].opcode.name = "Jpe"
    /\ memory[1].operand.value = 256
    /\ cir = <<[name |-> "Jpe", value |-> 0], memory[1].operand>>
    /\ ~zero /\ pc = 2
    /\ execution_info = None /\ execution_state = "Executing"

(***************************************************************************)
(* Indirect addressing: LDI and CMI through pointers to a value, to an     *)
(* instruction and outside memory                                          *)
(***************************************************************************)
\* cell 0 and 2 hold instructions; cell 4 points to cell 5 (7), cell 6
\* outside memory, cell 7 to the instruction in cell 0, cell 8 to cell 9 (5,
\* the value of ACC); 256 is outside memory
IndirectAddresses == {0, 4, 6, 7, 8, 256}

IndirectSources ==
    {Text(<<Line("Ldm", Num(5)), Line("Cmp", Num(9)), Line(m, DecText(a)),
            MnemonicText["End"], Num(5), Num(7), Num(300), Num(0), Num(9),
            Num(5)>>) :
        m \in {"Ldi", "Cmi"}, a \in IndirectAddresses}

\* a click on "Assemble and load" in SpecIndirect
IndirectClick == FreshAssembleAndLoad(IndirectSources, {0})

NextIndirect ==
    \/ TimedStep
    \/ NoTimedStep
    \/ NoClick
    \/ ClickExecute
    \/ ClickTerminate
    \/ ClickStep
    \/ ClickReset
    \/ IndirectClick

SpecIndirect == Init /\ [][NextIndirect]_vars

\* the step as it would end with the other of LDI and CMI in the cell at PC
C32_Other ==
    step([Ctx EXCEPT !.memory[pc] =
             Instruction(Op(IF memory[pc].opcode.name = "Ldi"
                            THEN "Cmi" ELSE "Ldi"),
                         memory[pc].operand)])

\* the step at PC reports the information e and stops
C32_Fails(e) == execution_info' = e /\ execution_state' = "Stopped"

\* the end of a step on LDI or CMI with an operand address a in memory
C32_Chain(a) ==
    IF memory[a].tag /= "Value"
    THEN C32_Fails([kind |-> "InvalidLoad", ins_address |-> pc,
                    requested_address |-> a])
    ELSE IF memory[a].value > 255
    THEN C32_Fails([kind |-> "AddressNotInMemory", ins_address |-> pc,
                    requested_address |-> memory[a].value])
    ELSE IF memory[memory[a].value].tag /= "Value"
    THEN C32_Fails([kind |-> "InvalidLoad", ins_address |-> pc,
                    requested_address |-> memory[a].value])
    ELSE LET w == memory[memory[a].value].value
         IN  IF memory[pc].opcode.name = "Ldi"
             THEN /\ acc' = w
                  /\ UNCHANGED <<carry, zero, overflow, sign>>
             ELSE /\ acc' = acc
                  /\ zero' = (acc = w)
                  /\ carry' = (acc < w)
                  /\ overflow' = (acc < w)
                  /\ sign' = (((acc - w + 65536) % 65536) >= 32768)

\* C32: a step on LDI or CMI makes the same checks whichever of the two it
\* is: it ends with the same report and execution state as the other would
\* in the same memory; with the operand address in memory the cell there
\* must hold a value p (else InvalidLoad on the address), p must be at most
\* 255 (else AddressNotInMemory on p), the cell at p must hold a value w
\* (else InvalidLoad on p), and then LDI leaves ACC = w and the flags as
\* they were, CMI the flags of CMP against w and ACC as it was
C32_IndirectChecks ==
    [][(StepTaken /\ FetchesAddressed({"Ldi", "Cmi"})) =>
          /\ panicked' = C32_Other.panicked
          /\ execution_info' = C32_Other.execution_info
          /\ execution_state' = C32_Other.execution_state
          /\ memory[pc].operand.value <= 255
                 => C32_Chain(memory[pc].operand.value)]_vars

(***************************************************************************)
(* Indexed addressing: LDX with IX 0, 1 and 65535 and addresses whose sum  *)
(* with IX is a value cell, an instruction cell, above 255 and above 65535 *)
(***************************************************************************)
IndexValues == {0, 1, 65535}

\* cells 0 to 2 hold the program, cell 3 the value 7
IndexedAddresses == {0, 2, 3, 4, 255, 256, 65535}

IndexedSources ==
    {Text(<<Line("Ldr", Num(x)), Line("Ldx", DecText(a)), MnemonicText["End"],
            Num(7)>>) :
        x \in IndexValues, a \in IndexedAddresses}

\* a click on "Assemble and load" in SpecIndexed
IndexedClick == FreshAssembleAndLoad(IndexedSources, {0})

NextIndexed ==
    \/ TimedStep
    \/ NoTimedStep
    \/ NoClick
    \/ ClickExecute
    \/ ClickTerminate
    \/ ClickStep
    \/ ClickReset
    \/ IndexedClick

SpecIndexed == Init /\ [][NextIndexed]_vars

\* the effective address of the LDX at PC, as the sum of two numbers
C33_Sum == memory[pc].operand.value + ix

\* C33: a step on LDX addr with the sum addr + IX at most 255 leaves ACC the
\* value of the cell at the sum, or reports InvalidLoad and stops when that
\* cell holds an instruction; with the sum above 255, above 65535 included,
\* it reports AddressNotInMemory, leaves ACC as it was and stops
C33_IndexedLoad ==
    [][(StepTaken /\ FetchesAddressed({"Ldx"})) =>
          IF C33_Sum > 255
          THEN /\ ~panicked'
               /\ execution_info'.kind = "AddressNotInMemory"
               /\ acc' = acc
               /\ execution_state' = "Stopped"
          ELSE IF memory[C33_Sum].tag = "Value"
          THEN acc' = memory[C33_Sum].value
          ELSE /\ execution_info' =
                      [kind |-> "InvalidLoad", ins_address |-> pc,
                       requested_address |-> C33_Sum]
               /\ execution_state' = "Stopped"]_vars

(***************************************************************************)
(* INC and DEC: both registers at the ends and in the middle of the 16-bit *)
(* range, with the carry flag set and clear                                *)
(***************************************************************************)
RegisterValues == {0, 1, 32767, 32768, 65535}

\* CMP #0 clears the carry flag, CMP #65535 sets it unless ACC is 65535
IncDecSources ==
    {Text(<<Line("Ldm", Num(a)), Line("Ldr", Num(x)), Line("Cmp", Num(v)),
            Line(m, r)>>) :
        a \in RegisterValues, x \in RegisterValues, v \in {0, 65535},
        m \in {"Inc", "Dec"}, r \in {<<"A", "C", "C">>, <<"I", "X">>}}

\* a click on "Assemble and load" in SpecIncDec
IncDecClick == FreshAssembleAndLoad(IncDecSources, {0})

NextIncDec ==
    \/ NoTimedStep
    \/ NoClick
    \/ ClickStep
    \/ IncDecClick

SpecIncDec == Init /\ [][NextIncDec]_vars

\* the cell at PC holds INC or DEC of the register reg
C34_Fetches(name, reg) ==
    /\ pc \in 0..255
    /\ memory[pc].tag = "Instruction"
    /\ memory[pc].opcode.name = name
    /\ memory[pc].operand.kind = "Register"
    /\ memory[pc].operand.reg = reg

\* old becomes new by adding d modulo 2^16, wrapped telling whether the sum
\* left the 16-bit range, and the flags follow the new value
C34_Moved(old, new, d, wrapped) ==
    /\ new = (old + 65536 + d) % 65536
    /\ zero' = (new = 0)
    /\ overflow' = wrapped
    /\ sign' = (new >= 32768)
    /\ carry' = carry

\* C34: a step on INC r (DEC r) leaves the register r one more (less)
\* modulo 2^16, zero set exactly when the result is 0, overflow exactly when
\* the register was 65535 (0), sign the bit 15 of the result, and the carry
\* flag and the other register as they were
C34_IncDec ==
    [][/\ (StepTaken /\ C34_Fetches("Inc", "Acc"))
              => C34_Moved(acc, acc', 1, acc = 65535) /\ ix' = ix
       /\ (StepTaken /\ C34_Fetches("Inc", "Ix"))
              => C34_Moved(ix, ix', 1, ix = 65535) /\ acc' = acc
       /\ (StepTaken /\ C34_Fetches("Dec", "Acc"))
              => C34_Moved(acc, acc', -1, acc = 0) /\ ix' = ix
       /\ (StepTaken /\ C34_Fetches("Dec", "Ix"))
              => C34_Moved(ix, ix', -1, ix = 0) /\ acc' = acc]_vars

\* INC IX has wrapped IX from 65535 to 0 with the carry flag set by the CMP
\* before it: zero and overflow set, carry still set, ACC still 1
C34_Witness ==
    /\ memory[3].tag = "Instruction" /\ memory[3].opcode.name = "Inc"
    /\ pc = 4
    /\ cir[1].name = "Inc" /\ cir[2].kind = "Register" /\ cir[2].reg = "Ix"
    /\ ix = 0 /\ acc = 1
    /\ zero /\ overflow /\ ~sign /\ carry

(***************************************************************************)
(* AND, XOR, OR with a number and with a value cell, LSL and LSR by a      *)
(* number below 16, with carry and overflow set and clear                  *)
(***************************************************************************)
\* 43690 and 21845 are the alternating bit patterns AAAA and 5555
LogicAccs == {0, 5, 43690, 65535}

LogicVals == {0, 3, 21845, 65535}

ShiftAccs == {0, 1, 5, 32769, 65535}

ShiftAmounts == {0, 1, 4, 15}

\* CMP #0 clears carry and overflow, CMP #65535 sets both unless ACC is 65535
LogicSources ==
    {Text(<<Line("Ldm", Num(a)), Line("Cmp", Num(c)), Line(m, Num(v))>>) :
        a \in LogicAccs, c \in {0, 65535}, m \in {"And", "Xor", "Or"},
        v \in LogicVals}
    \cup {Text(<<Line("Ldm", Num(a)), Line("Cmp", Num(c)),
                 Line(m, DecText(3)), Num(v)>>) :
        a \in LogicAccs, c \in {0, 65535}, m \in {"And", "Xor", "Or"},
        v \in LogicVals}
    \cup {Text(<<Line("Ldm", Num(a)), Line("Cmp", Num(c)), Line(m, Num(n))>>) :
        a \in ShiftAccs, c \in {0, 65535}, m \in {"Lsl", "Lsr"},
        n \in ShiftAmounts}

\* a click on "Assemble and load" in SpecLogic
LogicClick == FreshAssembleAndLoad(LogicSources, {0})

NextLogic ==
    \/ NoTimedStep
    \/ NoClick
    \/ ClickStep
    \/ LogicClick

SpecLogic == Init /\ [][NextLogic]_vars

\* bit i of n
C35_Bit(n, i) == (n \div Pow2(i)) % 2

\* bit i of the result of the bitwise operation name on a and b
C35_BitOf(name, a, b, i) ==
    CASE name = "And" -> IF C35_Bit(a, i) = 1 /\ C35_Bit(b, i) = 1 THEN 1 ELSE 0
      [] name = "Or"  -> IF C35_Bit(a, i) = 1 \/ C35_Bit(b, i) = 1 THEN 1 ELSE 0
      [] name = "Xor" -> IF C35_Bit(a, i) /= C35_Bit(b, i) THEN 1 ELSE 0

RECURSIVE C35_Bitwise(_, _, _, _)
\* the number whose bits i..15 are those of the bitwise result, bits below
\* i being 0
C35_Bitwise(name, a, b, i) ==
    IF i > 15 THEN 0
    ELSE C35_BitOf(name, a, b, i) * Pow2(i) + C35_Bitwise(name, a, b, i + 1)

\* the cell at PC holds the opcode name with a number, or with the address
\* of a value cell
C35_Fetches(name) ==
    /\ pc \in 0..255
    /\ memory[pc].tag = "Instruction"
    /\ memory[pc].opcode.name = name
    /\ \/ memory[pc].operand.kind = "Immediate"
       \/ /\ memory[pc].operand.kind = "Address"
          /\ memory[pc].operand.value <= 255
          /\ memory[memory[pc].operand.value].tag = "Value"

\* the operand value of that instruction
C35_Value ==
    IF memory[pc].operand.kind = "Immediate" THEN memory[pc].operand.value
    ELSE memory[memory[pc].operand.value].value

\* ACC has become r, zero and sign follow it, carry and overflow are kept
C35_Result(r) ==
    /\ acc' = r
    /\ zero' = (r = 0)
    /\ sign' = (C35_Bit(r, 15) = 1)
    /\ carry' = carry
    /\ overflow' = overflow

\* C35: a step on AND, XOR or OR leaves in ACC the bitwise result of ACC
\* and the operand value, zero set exactly when ACC is 0, sign the bit 15 of
\* ACC, and carry and overflow as they were; a step on LSL (LSR) by a
\* number n below 16 leaves ACC times 2^n modulo 2^16 (ACC divided by 2^n,
\* rounded down) with the same flags
C35_LogicAndShift ==
    [][/\ \A name \in {"And", "Xor", "Or"} :
              (StepTaken /\ C35_Fetches(name))
                  => C35_Result(C35_Bitwise(name, acc, C35_Value, 0))
       /\ (StepTaken /\ C35_Fetches("Lsl")
                /\ memory[pc].operand.kind = "Immediate" /\ C35_Value < 16)
              => C35_Result((acc * Pow2(C35_Value)) % 65536)
       /\ (StepTaken /\ C35_Fetches("Lsr")
                /\ memory[pc].operand.kind = "Immediate" /\ C35_Value < 16)
              => C35_Result(acc \div Pow2(C35_Value))]_vars

\* XOR 3 of AAAA with the 5555 in cell 3 has left FFFF: sign set, zero
\* clear, carry and overflow still set by the CMP #65535 before it
C35_Witness ==
    /\ cir[1].name = "Xor" /\ cir[2].kind = "Address" /\ cir[2].value = 3
    /\ memory[3].tag = "Value" /\ memory[3].value = 21845
    /\ pc = 3 /\ acc = 65535
    /\ sign /\ ~zero /\ carry /\ overflow

(***************************************************************************)
(* OUT: two characters in a row, valid scalar values and surrogates        *)
(***************************************************************************)
MaxConsole == 2

\* "H", the values around the surrogate range D800..DFFF, 0 and FFFF
OutputAccs == {0, 72, 55295, 55296, 57343, 57344, 65535}

OutputSources ==
    {Text(<<Line("Ldm", Num(a)), MnemonicText["Out"], Line("Ldm", Num(b)),
            MnemonicText["Out"]>>) :
        a \in OutputAccs, b \in OutputAccs}

\* update, lines 1104-1123, the step being due, the console holding up to
\* MaxConsole characters
ConsoleTimedStep ==
    /\ at = "clock" /\ ~panicked
    /\ execution_state = "Executing"
    /\ Len(TimedStepOf(Ctx).output) <= MaxConsole
    /\ TimedStepOf(Ctx).ins_executed <= MaxInsExecuted
    /\ Commit(ResetCounterIfStopped(TimedStepOf(Ctx)))
    /\ at' = "widgets"
    /\ last_input' = -1
    /\ loads' = loads

\* the "Step" button, the console holding up to MaxConsole characters
ConsoleClickStep ==
    /\ at = "widgets" /\ ~panicked
    /\ Len(step(Ctx).output) <= MaxConsole
    /\ Commit(step(Ctx))
    /\ at' = "clock"
    /\ last_input' = -1
    /\ loads' = loads

\* a click on "Assemble and load" in SpecConsole
ConsoleClick == FreshAssembleAndLoad(OutputSources, {0})

NextConsole ==
    \/ ConsoleTimedStep
    \/ NoTimedStep
    \/ NoClick
    \/ ClickExecute
    \/ ClickTerminate
    \/ ConsoleClickStep
    \/ ConsoleClick

SpecConsole == Init /\ [][NextConsole]_vars

\* C36: a step on OUT appends one character to the output, the one with
\* code point ACC, or U+FFFD when ACC lies in D800..DFFF and is no scalar
\* value; the output before it, ACC, IX, the flags, memory and the
\* execution state are as they were
C36_OutAppends ==
    [][((ConsoleTimedStep \/ ConsoleClickStep) /\ OutAt(pc)) =>
          /\ Len(output') = Len(output) + 1
          /\ \A k \in 1..Len(output) : output'[k] = output[k]
          /\ output'[Len(output) + 1] =
                 IF acc >= 55296 /\ acc <= 57343 THEN 65533 ELSE acc
          /\ UNCHANGED <<acc, ix, carry, zero, overflow, sign, memory,
                         execution_state>>]_vars

\* "H" and then the surrogate D800 were put out: the console holds "H" and
\* the replacement character
C36_Witness ==
    /\ output = <<72, 65533>>
    /\ acc = 55296 /\ pc = 4
    /\ OutAt(3)

(***************************************************************************)
(* Decoding: every mnemonic with no operand, a number, addresses in and    *)
(* outside memory and a register, followed by a data word, loaded at both  *)
(* ends of memory and run with every button                                *)
(***************************************************************************)
DecodeOperands ==
    {<<>>, <<"#", "1">>, <<"1">>, <<"2">>, <<"2", "5", "6">>, <<"A", "C", "C">>}

DecodeSources ==
    {Text(<<AsmLine(MnemonicText[m], d), Num(7)>>) :
        m \in Mnemonics, d \in DecodeOperands}

\* loaded at 254 the data word is cell 255 and address 2 becomes 256
DecodeLocations == {0, 254}

\* a click on "Assemble and load" in SpecDecode
DecodeClick == FirstAssembleAndLoad(DecodeSources, DecodeLocations)

\* programs loaded over what is in memory: a data word over the first cell
\* and an instruction over the second, or one instruction
DecodeReloads ==
    {Text(<<Num(9), Line("Ldm", Num(1))>>), Text(<<Line("Sto", <<"0">>)>>)}

MaxDecodeLoads == 1

\* a later click on "Assemble and load" in SpecDecode, in whatever state
DecodeReload == CountedAssembleAndLoad(DecodeReloads, {0}, MaxDecodeLoads)

NextDecode ==
    \/ TimedStep
    \/ NoTimedStep
    \/ NoClick
    \/ ClickExecute
    \/ ClickTerminate
    \/ ClickStep
    \/ ClickReset
    \/ DecodeClick
    \/ DecodeReload
    \/ TypeInput
    \/ ClickSend

SpecDecode == Init /\ [][NextDecode]_vars

\* the operand kinds of the table, per opcode; none for a data word, which
\* is no instruction
C37_Table(name) ==
    CASE name \in {"Ldm", "Ldr", "Lsl", "Lsr"} -> {"Immediate"}
      [] name \in {"Ldd", "Ldi", "Ldx", "Sto", "Jmp", "Cmi", "Jpe", "Jpn"}
             -> {"Address"}
      [] name \in {"Mov", "Inc", "Dec"} -> {"Register"}
      [] name \in {"Add", "Sub", "Cmp", "And", "Xor", "Or"}
             -> {"Address", "Immediate"}
      [] name \in {"In", "Out", "End"} -> {"Empty"}
      [] OTHER -> {}

\* every instruction cell carries an operand kind of the table
C37_WellFormed ==
    \A a \in 0..255 :
        memory[a].tag = "Instruction"
            => memory[a].operand.kind \in C37_Table(memory[a].opcode.name)

\* the panics a step has for other reasons than its decoding: PC outside
\* memory, LDD and LDI of an address above 255, LDX of a sum above 65535
C37_OtherPanic ==
    \/ pc > 255
    \/ /\ memory[pc].tag = "Instruction"
       /\ memory[pc].operand.kind = "Address"
       /\ \/ /\ memory[pc].opcode.name \in {"Ldd", "Ldi"}
             /\ memory[pc].operand.value > 255
          \/ /\ memory[pc].opcode.name = "Ldx"
             /\ memory[pc].operand.value + ix > 65535

\* C37: every instruction cell of memory carries an opcode other than Data
\* with an operand kind of the table, and no step panics in its decoding
C37_NoImpossibleDecode ==
    /\ [](C37_WellFormed)
    /\ [][(StepTaken /\ panicked') => C37_OtherPanic]_vars

\* "L: STO 1" and the data word 7 were loaded at 0 and the STO stepped: it
\* has written ACC over the data word, the instruction cell is as loaded
C37_Witness ==
    /\ memory[0].tag = "Instruction" /\ memory[0].opcode.name = "Sto"
    /\ memory[0].operand.kind = "Address" /\ memory[0].operand.value = 1
    /\ cir = <<memory[0].opcode, memory[0].operand>>
    /\ memory[1].tag = "Value" /\ memory[1].value = 0
    /\ pc = 1 /\ ~panicked

(***************************************************************************)
(* Loading over a machine that has run: a first program is loaded and run  *)
(* with every button, then a second text is assembled and loaded once      *)
(***************************************************************************)
\* sets ACC, IX, the flags and the output, waits for input, ends
SrcFirst ==
    Text(<<Line("Ldm", Num(72)), Line("Ldr", Num(3)), Line("Cmp", Num(9)),
           MnemonicText["Out"], MnemonicText["In"], MnemonicText["End"]>>)

\* one instruction; an instruction with an address and a data word; no
\* instruction at all; an unknown opcode; an address that the relocation
\* takes above 65535
ReloadSources ==
    {SrcEnd,
     Text(<<Line("Ldd", DecText(3)), Num(9)>>),
     Text(<<<<"/", "/", " ", "c">>>>),
     Text(<<<<"N", "O", "P">>>>),
     Text(<<Line("Ldm", Num(1)), Line("Jmp", DecText(65535))>>)}

\* at 255 the programs of two instructions do not fit
ReloadLocations == {0, 2, 255}

\* a click on "Assemble and load" with another text in the editor, the
\* first program being the one loaded so far, in whatever state it is
ReloadClick ==
    /\ at = "widgets" /\ ~panicked
    /\ source_code = SrcFirst
    /\ \E src \in ReloadSources, L \in ReloadLocations :
           Commit(AssembleAndLoad([Ctx EXCEPT !.source_code = src,
                                              !.program_load_location = L]))
    /\ at' = "clock"
    /\ last_input' = last_input
    /\ loads' = loads

NextReload ==
    \/ TimedStep
    \/ NoTimedStep
    \/ NoClick
    \/ ClickExecute
    \/ ClickTerminate
    \/ ClickStep
    \/ FirstAssembleAndLoad({SrcFirst}, {0})
    \/ ReloadClick
    \/ TypeInput
    \/ ClickSend

SpecReload == Init /\ [][NextReload]_vars

\* the text just loaded assembles and fits at the load location
C38_Loads ==
    /\ assemble(source_code').ok
    /\ Len(assemble(source_code').val) <= 256 - program_load_location'

\* the cells the load is to write
C38_Written ==
    program_load_location'
        .. (program_load_location' + Len(assemble(source_code').val) - 1)

\* C38: a click on "Assemble and load" that loads n instructions at L
\* leaves every cell outside L..L+n-1, PC, CIR, ACC, IX, the flags, the
\* output and the execution state as they were; a click whose text does not
\* assemble or does not fit leaves memory and all of these as they were
C38_LoadFrame ==
    [][(ReloadClick /\ ~panicked') =>
          /\ UNCHANGED <<pc, cir, acc, ix, carry, zero, overflow, sign,
                         output, execution_state>>
          /\ IF C38_Loads
             THEN \A a \in 0..255 : a \notin C38_Written => memory'[a] = memory[a]
             ELSE memory' = memory /\ mar' = mar /\ mdr' = mdr]_vars

\* "LDD 3" and the data word 9 were loaded at 2 while the first program was
\* awaiting input in a run: cells 2 and 3 hold the new program, cells 0, 1,
\* 4 and 5 the first one, PC is still 5, ACC 72, IX 3 and the output "H"
C38_Witness ==
    /\ source_code = Text(<<Line("Ldd", DecText(3)), Num(9)>>)
    /\ program_load_location = 2
    /\ memory[2].tag = "Instruction" /\ memory[2].opcode.name = "Ldd"
    /\ memory[2].operand.value = 5
    /\ memory[3].tag = "Value" /\ memory[3].value = 9
    /\ memory[0].tag = "Instruction" /\ memory[0].opcode.name = "Ldm"
    /\ memory[4].tag = "Instruction" /\ memory[4].opcode.name = "In"
    /\ memory[5].tag = "Instruction" /\ memory[5].opcode.name = "End"
    /\ pc = 5 /\ acc = 72 /\ ix = 3 /\ output = <<72>>
    /\ execution_state = "ExecutingAwaitingInput"

(***************************************************************************)
(* Content lines: every program of three lines, each with or without the   *)
(* label E, with no instruction, a comment, an instruction or both         *)
(***************************************************************************)
\* the part of a line after its label, with the opcode it is to emit; ""
\* for a part that is blank or a comment and emits nothing
ContentBodies ==
    {[text |-> <<>>, emits |-> ""],
     [text |-> <<" ", " ">>, emits |-> ""],
     [text |-> <<"/", "/", " ", "O", "U", "T">>, emits |-> ""],
     [text |-> <<" ", "I", "N", "/", "/", "c">>, emits |-> "In"],
     [text |-> <<" ", "#", "5", " ", "/", "/", " ", "c">>, emits |-> "Data"],
     [text |-> <<" ", "J", "M", "P", " ", "E">>, emits |-> "Jmp"]}

ContentLines == [body : ContentBodies, label : BOOLEAN]

ContentPrograms == ContentLines \X ContentLines \X ContentLines

ContentLineText(d) == (IF d.label THEN <<"E", ":">> ELSE <<>>) \o d.body.text

ContentText(prog) ==
    Text(<<ContentLineText(prog[1]), ContentLineText(prog[2]),
           ContentLineText(prog[3])>>)

ContentSources == {ContentText(prog) : prog \in ContentPrograms}

\* a click on "Assemble and load" in SpecContent
ContentClick == FirstAssembleAndLoad(ContentSources, {0})

NextContent ==
    \/ NoTimedStep
    \/ NoClick
    \/ ContentClick

SpecContent == Init /\ [][NextContent]_vars

\* the content lines of a program: those with a token left after the
\* comment and the label are removed
C39_Content(prog) == {n \in 1..3 : prog[n].body.emits /= ""}

RECURSIVE C39_Opcodes(_, _)
\* the opcodes the lines n.. of a program emit, in source order
C39_Opcodes(prog, n) ==
    IF n > 3 THEN <<>>
    ELSE (IF n \in C39_Content(prog) THEN <<prog[n].body.emits>> ELSE <<>>)
             \o C39_Opcodes(prog, n + 1)

\* the label E is defined after the last content line
C39_Trailing(prog) ==
    \E n \in 1..3 : prog[n].label /\ \A m \in C39_Content(prog) : m < n

\* C39: when assemble succeeds its output has one element per content
\* line, in source order; every label is bound to a number from 0 to the
\* length of the output, and a label defined after the last content line
\* to that length
C39_OnePerContentLine ==
    \A prog \in ContentPrograms :
        (source_code = ContentText(prog) /\ assemble(source_code).ok) =>
            /\ Len(assemble(source_code).val) = Cardinality(C39_Content(prog))
            /\ \A k \in 1..Len(assemble(source_code).val) :
                   assemble(source_code).val[k][1].name
                       = C39_Opcodes(prog, 1)[k]
            /\ \A l \in DOMAIN SymbolTableOf(source_code) :
                   /\ SymbolTableOf(source_code)[l] >= 0
                   /\ SymbolTableOf(source_code)[l]
                          <= Len(assemble(source_code).val)
            /\ C39_Trailing(prog)
                   => /\ <<"E">> \in DOMAIN SymbolTableOf(source_code)
                      /\ SymbolTableOf(source_code)[<<"E">>]
                             = Len(assemble(source_code).val)

\* " IN//c" / " JMP E" / "E:  ": two content lines and the label E after
\* them; the jump was assembled to the slot past the end of the program
C39_Witness ==
    /\ source_code = Text(<<<<" ", "I", "N", "/", "/", "c">>,
                            <<" ", "J", "M", "P", " ", "E">>,
                            <<"E", ":", " ", " ">>>>)
    /\ assembler_error = None
    /\ memory[0].tag = "Instruction" /\ memory[0].opcode.name = "In"
    /\ memory[1].tag = "Instruction" /\ memory[1].opcode.name = "Jmp"
    /\ memory[1].operand.value = 2
    /\ memory[2].tag = "Value"

(***************************************************************************)
(* The memory frame of a step, under SpecDecode                            *)
(***************************************************************************)
\* what the step at PC reports by itself, None if nothing
C40_Report == step([Ctx EXCEPT !.execution_info = None]).execution_info

\* C40: a step changes a memory cell only when it executes STO with an
\* address up to 255; a step on any other opcode, a step that fetches a
\* value cell and a step that reports AddressNotInMemory or InvalidLoad
\* leave the 256 cells as they were, and a step that reports one of the two
\* leaves PC one past the instruction that failed
C40_StepFrame ==
    [][(StepTaken /\ ~panicked') =>
          /\ memory' /= memory
                 => /\ FetchesAddressed({"Sto"})
                    /\ memory[pc].operand.value <= 255
          /\ C40_Report.kind \in {"AddressNotInMemory", "InvalidLoad"}
                 => /\ memory' = memory
                    /\ execution_info' = C40_Report
                    /\ execution_info'.ins_address = pc
                    /\ pc' = pc + 1]_vars

\* "L: STO 256" before the data word 7, loaded at 0 and stepped: the step
\* reported AddressNotInMemory, PC is 1, the two cells are as loaded
C40_Witness ==
    /\ execution_info = [kind |-> "AddressNotInMemory", ins_address |-> 0,
                         requested_address |-> 256]
    /\ pc = 1 /\ execution_state = "Stopped"
    /\ memory[0].tag = "Instruction" /\ memory[0].opcode.name = "Sto"
    /\ memory[0].operand.value = 256
    /\ memory[1].tag = "Value" /\ memory[1].value = 7

=============================================================================
